---- MODULE Spec2Model ----
(***************************************************************************)
(* Temple Vault: the governed memory layer (TempleMemoryHandler), the      *)
(* governance controller (SpiralStateMachine), the sync router             *)
(* (HybridSyncRouter) and the append-only chronicle (VaultEvents).         *)
(*                                                                         *)
(* Files are modelled as sequences of lines: a .jsonl file holds one       *)
(* record per line, any other file holds its one JSON document as a        *)
(* single line.  A file exists iff its key is in the DOMAIN of the         *)
(* directory map that holds it.                                            *)
(*                                                                         *)
(* Time is a tick counter.  Every operation takes one tick, so the         *)
(* microsecond timestamps of two operations differ, while identifiers      *)
(* formatted to the second (EventId) can coincide.                         *)
(* restraint_level is held in tenths (0.5 is 5), exact arithmetic.         *)
(***************************************************************************)
EXTENDS Integers, Sequences, FiniteSets, TLC

\* ------------------------------------------------------------------ bounds

\* Last tick at which an operation of the memory layer may start.
MaxClock == 3
\* Ticks that share one wall-clock second.
TicksPerSecond == 2
\* Ticks that share one calendar day (chronicle partitions are dated).
TicksPerDay == 4
\* Chronicle records appended in one behaviour, and day changes observed.
MaxRecords == 2
MaxDays == 1

\* ---------------------------------------------------------------- strings

StartsWith(s, p) == Len(s) >= Len(p) /\ SubSeq(s, 1, Len(p)) = p

EndsWith(s, p) == Len(s) >= Len(p) /\ SubSeq(s, Len(s) - Len(p) + 1, Len(s)) = p

\* Index of the last "/" of s, 0 when there is none.
RECURSIVE LastSlash(_, _)
LastSlash(s, i) ==
    IF i = 0 THEN 0
    ELSE IF SubSeq(s, i, i) = "/" THEN i
    ELSE LastSlash(s, i - 1)

\* pathlib: (memories_dir / key).parent, relative to memories_dir ("" is the root).
ParentDir(key) ==
    LET i == LastSlash(key, Len(key))
    IN IF i <= 1 THEN "" ELSE SubSeq(key, 1, i - 1)

\* mkdir(parents=True): the directory and every ancestor of it.
RECURSIVE Ancestors(_)
Ancestors(dir) == IF dir = "" THEN {""} ELSE {dir} \cup Ancestors(ParentDir(dir))

\* ------------------------------------------------------------- file maps

FileExists(fs, path) == path \in DOMAIN fs

\* Mutant: the file is opened for writing, not appending.
AppendLineTruncating(fs, path, line) ==
    [p \in DOMAIN fs \cup {path} |-> IF p = path THEN <<line>> ELSE fs[p]]

\* open(path, "a"); write(line): creates the file when absent.
AppendLine(fs, path, line) ==
    IF path \in DOMAIN fs
    THEN [fs EXCEPT ![path] = Append(@, line)]
    ELSE [p \in DOMAIN fs \cup {path} |-> IF p = path THEN <<line>> ELSE fs[p]]

\* open(path, "w"); json.dump(doc): the file holds exactly this document.
WriteDoc(fs, path, doc) ==
    [p \in DOMAIN fs \cup {path} |-> IF p = path THEN <<doc>> ELSE fs[p]]

\* Mutant: the removal is skipped.
UnlinkKeepsFile(fs, path) == fs

\* path.unlink()
Unlink(fs, path) == [p \in DOMAIN fs \ {path} |-> fs[p]]

EmptyFs == [p \in {} |-> <<>>]

\* ------------------------------------------------------------- constants

DefaultRestraint == 5
PauseThreshold == 8
MaxRestraint == 10
MinRestraint == 0
DeleteRestraintScore == 10
ConfirmRestraintScore == 0

DEFAULT_PROTOCOLS ==
    << "restraint_as_wisdom", "questions_over_commands", "pause_before_extend",
       "gentle_extension", "filesystem_is_truth" >>

SensitivePatterns ==
    << "technical/api_keys", "technical/credentials", "technical/ssh_configs" >>

NEVER_SYNC_PATTERNS ==
    << "technical/api_keys", "technical/ssh_configs", "technical/local_state",
       "technical/credentials", "spiral/state.json" >>

ALWAYS_SYNC_PATTERNS ==
    << "experiential/insights", "experiential/transformations", "experiential/learnings" >>

SYNC_WITH_REVIEW_PATTERNS ==
    << "relational/values", "relational/lineage", "relational/convergence" >>

\* The controller's own files, as keys of the memories directory:
\* SpiralStateMachine(self.memories_dir / "spiral").
StateKey == "spiral/state.json"
GovKey == "spiral/governance.jsonl"
CredsKey == "technical/sync_credentials.json"
ThresholdsKey == "spiral/thresholds.json"
\* The router's queue file, as a key: memories_dir / "../_sync/pending.jsonl" is
\* vault_root/_sync/pending.jsonl.
PendingFileKey == "../_sync/pending.jsonl"

None == "None"
\* A timestamp field that holds None.
NoTime == -1

\* ------------------------------------------------------------- variables

VARIABLES
    clock,       \* current tick
    mem,         \* memories/: key -> lines of the file (present keys only)
    dirs,        \* directories that exist under memories/ ("" is memories/ itself)
    st,          \* SpiralStateMachine._state (in memory)
    nextSpiral,  \* source of fresh spiral ids (uuid4)
    pending,     \* _sync/pending.jsonl
    conflicts,   \* _sync/conflicts.jsonl
    sync,        \* HybridSyncRouter._state, written through to _sync/sync_state.json
    cloud,       \* the cloud backend behind the router's hooks, and the calls made to it
    chronicle,   \* vault/chronicle and vault/events: partition path -> lines
    nextId,      \* source of fresh record ids (uuid4)
    cache,       \* vault/cache: index file name -> document (present files only)
    rebuilt,     \* history: the last rebuild_cache, the store it scanned, its result
    runs,        \* the rebuild_cache executions in progress, per process
    inflight,    \* the calls in progress in each process: a file opened, lines read
    snapshots,   \* vault/snapshots: snapshot file path -> lines of the file
    latest,      \* vault/snapshots/latest: the symlink's target, or None
    answer,      \* history: the last query, its arguments and its result
    issued,      \* history: every governance event ever recorded, in order
    last         \* history: the last operation, its arguments and its result

vars == << clock, mem, dirs, st, nextSpiral, pending, conflicts, sync, cloud,
           chronicle, nextId, runs, inflight, cache, rebuilt, snapshots, latest, answer,
           issued, last >>

memVars == << mem, dirs, st, nextSpiral, issued >>
syncVars == << pending, conflicts, sync, cloud >>
derivedVars == << cache, rebuilt, runs, inflight, snapshots, latest, answer >>
chronVars == << chronicle, nextId, derivedVars >>

\* --------------------------------------------- governance controller (spiral)

\* _create_new_spiral: the state document of a fresh controller.
NewSpiralState(id, inherited_from, t) ==
    [ spiral_id |-> id,
      current_phase |-> "active",
      restraint_level |-> DefaultRestraint,
      inherited_from |-> inherited_from,
      protocols_active |-> DEFAULT_PROTOCOLS,
      governance_history |-> <<>>,
      created_at |-> t,
      last_updated |-> t ]

\* The thresholds.json document that _create_new_spiral writes when none exists.
ThresholdsDoc == [protocol_version |-> "1.0", thresholds |-> "DEFAULT_THRESHOLDS"]

\* _create_new_spiral's writes: the state saved, thresholds.json made if missing.
CreateNewSpiralFiles(fs, s) ==
    LET fs1 == WriteDoc(fs, StateKey, s)
    IN IF FileExists(fs1, ThresholdsKey) THEN fs1
       ELSE WriteDoc(fs1, ThresholdsKey, ThresholdsDoc)

\* _save_state: stamps last_updated on the state and overwrites state.json with it.
SaveState(fs, s, t) ==
    LET s1 == [s EXCEPT !.last_updated = t]
    IN [mem |-> WriteDoc(fs, StateKey, s1), st |-> s1]

\* f"gov_{datetime.now().strftime('%Y%m%d%H%M%S')}": the time to the second.
EventId(t) == "gov_" \o ToString(t \div TicksPerSecond)

\* Mutant: the restraint test is >= instead of >.
should_pause_AtThreshold(action, key) ==
    IF action = "delete" THEN TRUE
    ELSE IF /\ \E i \in DOMAIN SensitivePatterns : StartsWith(key, SensitivePatterns[i])
            /\ action \in {"create", "update"}
         THEN TRUE
    ELSE IF st.restraint_level >= PauseThreshold /\ action = "create" THEN TRUE
    ELSE FALSE

\* should_pause(action, key), reading the in-memory restraint_level.
should_pause(action, key) ==
    IF action = "delete" THEN TRUE
    ELSE IF /\ \E i \in DOMAIN SensitivePatterns : StartsWith(key, SensitivePatterns[i])
            /\ action \in {"create", "update"}
         THEN TRUE
    ELSE IF st.restraint_level > PauseThreshold /\ action = "create" THEN TRUE
    ELSE FALSE

\* record_governance_event on controller state s and memories fs at tick t:
\* one line appended to governance.jsonl, the id appended to governance_history,
\* the state saved.  Yields the new files, the new state, the id and the event.
RecordEvent(fs, s, t, decision, reason, context, score) ==
    LET id == EventId(t)
        event == [ event_id |-> id,
                   type |-> "governance_decision",
                   spiral_id |-> s.spiral_id,
                   decision |-> decision,
                   reason |-> reason,
                   context |-> context,
                   restraint_score |-> score,
                   timestamp |-> t ]
        fs1 == AppendLine(fs, GovKey, event)
        s1 == [s EXCEPT !.governance_history = Append(@, id)]
        saved == SaveState(fs1, s1, t)
    IN [mem |-> saved.mem, st |-> saved.st, id |-> id, event |-> event]

\* The log as the controller reads it back (_load_governance_history).
GovLog == IF FileExists(mem, GovKey) THEN mem[GovKey] ELSE <<>>

IsEvent(line) == "event_id" \in DOMAIN line /\ "decision" \in DOMAIN line

\* ------------------------------------------------------------ sync router

\* classify_tier(key)
classify_tier(key) ==
    IF \E i \in DOMAIN NEVER_SYNC_PATTERNS :
           StartsWith(key, NEVER_SYNC_PATTERNS[i]) \/ key = NEVER_SYNC_PATTERNS[i]
    THEN "never_sync"
    ELSE IF \E i \in DOMAIN ALWAYS_SYNC_PATTERNS : StartsWith(key, ALWAYS_SYNC_PATTERNS[i])
    THEN "always_sync"
    ELSE IF \E i \in DOMAIN SYNC_WITH_REVIEW_PATTERNS :
                StartsWith(key, SYNC_WITH_REVIEW_PATTERNS[i])
    THEN "sync_with_review"
    ELSE "default"

\* _hash_content: sha256 of the canonical JSON text; equal hashes iff equal content.
\* An optional content is <<>> (None) or <<content>>.
HashContent(opt) == IF opt = <<>> THEN <<>> ELSE <<"sha256", opt[1]>>

\* Mutant: the never_sync early return is missing.
QueueForSyncAnyTier(q, s, t, key, operation, content) ==
    LET entry == [ key |-> key,
                   operation |-> operation,
                   tier |-> classify_tier(key),
                   queued_at |-> t,
                   status |-> "pending",
                   content_hash |-> HashContent(content) ]
    IN [pending |-> Append(q, entry),
        sync |-> [s EXCEPT !.pending_count = @ + 1]]

\* queue_for_sync(key, operation, content) on queue q and router state s at tick t.
QueueForSync(q, s, t, key, operation, content) ==
    LET tier == classify_tier(key)
        entry == [ key |-> key,
                   operation |-> operation,
                   tier |-> tier,
                   queued_at |-> t,
                   status |-> "pending",
                   content_hash |-> HashContent(content) ]
    IN IF tier = "never_sync"
       THEN [pending |-> q, sync |-> s]
       ELSE [pending |-> Append(q, entry),
             sync |-> [s EXCEPT !.pending_count = @ + 1]]

\* _load_state with no sync_state.json on disk.
InitialSyncState ==
    [ last_sync |-> NoTime,
      pending_count |-> 0,
      conflict_count |-> 0,
      cloud_enabled |-> FALSE,
      cloud_backend |-> None ]

\* The backend behind the hooks _push_anthropic, _push_r2, _push_s3 and
\* _cloud_fetch: the keys it holds a version of, the keys whose push it refuses
\* (the hook returns False) and the keys whose push raises, with the log of the
\* hook calls made so far. The shipped hooks are placeholders: they accept every
\* push and hold nothing.
ShippedBackend ==
    [ objects |-> {}, refuses |-> {}, raises |-> {}, calls |-> <<>> ]

\* The document the backend returns for a key it holds.
RemoteDoc(key) == [content |-> "remote", key |-> key]

HookCall(hook, key) == [hook |-> hook, key |-> key]

\* _cloud_fetch(key): the backend's version of key, or None.
CloudFetch(c, key) == IF key \in c.objects THEN <<RemoteDoc(key)>> ELSE <<>>

\* fetch_from_cloud(key)
fetch_from_cloud(s, c, key) == IF ~s.cloud_enabled THEN <<>> ELSE CloudFetch(c, key)

\* get_pending(): the queue entries whose status is pending, in file order.
GetPending(q) ==
    SelectSeq(q, LAMBDA e : "status" \in DOMAIN e /\ e.status = "pending")

\* _push_anthropic, _push_r2, _push_s3: what the backend answers to a push.
PushHook(c, key) ==
    IF key \in c.raises THEN "raise"
    ELSE IF key \in c.refuses THEN "False"
    ELSE "True"

\* The backends _push_to_cloud has a hook for.
HasHook(backend) == backend \in {"anthropic", "r2", "s3"}

\* _push_to_cloud(key): dispatch on the backend; any other backend (local) counts
\* as pushed.
PushToCloud(c, backend, key) ==
    IF backend = "anthropic" THEN PushHook(c, key)
    ELSE IF backend = "r2" THEN PushHook(c, key)
    ELSE IF backend = "s3" THEN PushHook(c, key)
    ELSE "True"

\* _check_conflict(key): None when the cloud holds nothing, and None otherwise too
\* (the comparison is not implemented).
CheckConflict(c, key) == IF CloudFetch(c, key) = <<>> THEN <<>> ELSE <<>>

\* Mutant: the matching line is dropped from the file instead of being marked.
MarkSyncedRemoving(q, item, t) ==
    SelectSeq(q, LAMBDA e : ~(e.key = item.key /\ e.queued_at = item.queued_at))

\* _mark_synced(item): rewrite of pending.jsonl with the matching lines marked.
MarkSynced(q, item, t) ==
    [ i \in DOMAIN q |->
        IF /\ "key" \in DOMAIN q[i] /\ "queued_at" \in DOMAIN q[i]
           /\ q[i].key = item.key /\ q[i].queued_at = item.queued_at
        THEN [ key |-> q[i].key, operation |-> q[i].operation, tier |-> q[i].tier,
               queued_at |-> q[i].queued_at, status |-> "synced",
               content_hash |-> q[i].content_hash, synced_at |-> t ]
        ELSE q[i] ]

\* _record_conflict(key, conflict)
RecordConflict(log, key, t) ==
    Append(log, [key |-> key, detected_at |-> t, resolved |-> FALSE])

\* Mutant: the entry is marked synced whatever the push answered.
PushItemMarksAnyway(acc, item, backend, t) ==
    LET called == IF HasHook(backend)
                  THEN [acc EXCEPT !.cloud.calls = Append(@, HookCall("push", item.key))]
                  ELSE acc
    IN [called EXCEPT !.pending = MarkSynced(called.pending, item, t),
                      !.synced = @ + 1]

\* One push of the loop of sync_to_cloud: the call of _push_to_cloud for item and
\* what the branch of item's tier does with its answer; a raise lands in the
\* except clause of the loop body.
PushItem(acc, item, backend, t) ==
    LET out == PushToCloud(acc.cloud, backend, item.key)
        called == IF HasHook(backend)
                  THEN [acc EXCEPT !.cloud.calls = Append(@, HookCall("push", item.key))]
                  ELSE acc
    IN IF out = "True"
       THEN [called EXCEPT !.pending = MarkSynced(called.pending, item, t),
                           !.synced = @ + 1]
       ELSE IF out = "raise"
       THEN [called EXCEPT !.errors = Append(@, item.key \o ": backend error")]
       ELSE IF item.tier = "always_sync"
       THEN [called EXCEPT !.errors = Append(@, "Failed to sync: " \o item.key)]
       ELSE called

\* Mutant: the loop of sync_to_cloud stops at the first push that does not succeed.
RECURSIVE SyncLoopAborting(_, _, _, _, _)
SyncLoopAborting(items, i, acc, backend, t) ==
    IF i > Len(items) THEN acc
    ELSE
      LET item == items[i]
          fetched == [acc EXCEPT !.cloud.calls = Append(@, HookCall("fetch", item.key))]
          step ==
            IF item.tier = "always_sync"
            THEN PushItem(acc, item, backend, t)
            ELSE IF item.tier = "sync_with_review"
            THEN IF CheckConflict(acc.cloud, item.key) # <<>>
                 THEN [fetched EXCEPT
                         !.conflicts = RecordConflict(fetched.conflicts, item.key, t),
                         !.nconflicts = @ + 1]
                 ELSE PushItem(fetched, item, backend, t)
            ELSE PushItem(acc, item, backend, t)
      IN IF PushToCloud(acc.cloud, backend, item.key) # "True"
         THEN step
         ELSE SyncLoopAborting(items, i + 1, step, backend, t)

\* The loop of sync_to_cloud over the entries that were pending at its start:
\* acc is the queue, the conflict log, the backend and the result counts so far.
RECURSIVE SyncLoop(_, _, _, _, _)
SyncLoop(items, i, acc, backend, t) ==
    IF i > Len(items) THEN acc
    ELSE
      LET item == items[i]
          fetched == [acc EXCEPT !.cloud.calls = Append(@, HookCall("fetch", item.key))]
          step ==
            IF item.tier = "always_sync"
            THEN PushItem(acc, item, backend, t)
            ELSE IF item.tier = "sync_with_review"
            THEN IF CheckConflict(acc.cloud, item.key) # <<>>
                 THEN [fetched EXCEPT
                         !.conflicts = RecordConflict(fetched.conflicts, item.key, t),
                         !.nconflicts = @ + 1]
                 ELSE PushItem(fetched, item, backend, t)
            ELSE PushItem(acc, item, backend, t)
      IN SyncLoop(items, i + 1, step, backend, t)

\* ---------------------------------------------------------- memory handler

SpiralName(n) == "spiral_" \o ToString(n)

\* The content dicts callers pass, by name: "c1" is {"content": "c1"}; "c2" is
\* {"content": "c2", "restraint_level": 2.0}, a dict with a key of its own that
\* the controller's state document also uses; "task" is {"content": "task",
\* "status": "pending"}, a dict with a key that queue entries also use.
ContentDict(c) ==
    IF c = "c2" THEN [content |-> c, restraint_level |-> 20]
    ELSE IF c = "task" THEN [content |-> c, status |-> "pending"]
    ELSE [content |-> c]

\* _add_metadata on a content dict that carries neither timestamp nor spiral_id:
\* the two keys are added, the dict's own keys are kept.
AddMetadata(c, s, t) ==
    ContentDict(c) @@ [timestamp |-> t, spiral_id |-> s.spiral_id]

IsJsonl(key) == EndsWith(key, ".jsonl")

\* Mutant: every key is opened for writing, a multi-record key too.
WriteEntryOverwrites(fs, key, entry) == WriteDoc(fs, key, entry)

\* The write of create/update: append for .jsonl, overwrite otherwise.
WriteEntry(fs, key, entry) ==
    IF IsJsonl(key) THEN AppendLine(fs, key, entry) ELSE WriteDoc(fs, key, entry)

\* read(key): the parsed lines of a .jsonl file, the document of any other file
\* (as its single line), or None: no local file, and nothing fetched from the cloud.
read(fs, s, c, key) ==
    IF FileExists(fs, key)
    THEN [found |-> TRUE, value |-> fs[key]]
    ELSE LET cloud_content ==
                 IF classify_tier(key) \in {"always_sync", "sync_with_review"}
                 THEN fetch_from_cloud(s, c, key)
                 ELSE <<>>
         IN [found |-> cloud_content # <<>>, value |-> cloud_content]

Result(op, key, arg, tag, event_id) ==
    [op |-> op, key |-> key, arg |-> arg, tag |-> tag, event_id |-> event_id]

\* Mutant: the token names the key and leaves the event id out.
PauseTokenWithoutId(op, event_id, key) ==
    "GOVERNANCE_PAUSE:" \o "User decision required for: " \o key

\* The string a paused create, update or delete returns.
PauseToken(op, event_id, key) ==
    IF op = "delete"
    THEN "GOVERNANCE_PAUSE:" \o event_id \o ":DELETE_CONFIRM_REQUIRED:" \o key
    ELSE "GOVERNANCE_PAUSE:" \o event_id \o ":User decision required for: " \o key

\* Mutant: the entry is written before the governance check.
CreateWritesBeforePause(key, c) ==
    /\ clock <= MaxClock
    /\ clock' = clock + 1
    /\ LET entry == AddMetadata(c, st, clock)
           written == WriteEntry(mem, key, entry)
       IN IF should_pause("create", key)
          THEN LET r == RecordEvent(written, st, clock, "pause",
                                    "Create operation requires review: " \o key,
                                    key, st.restraint_level)
               IN /\ mem' = r.mem
                  /\ st' = r.st
                  /\ issued' = Append(issued, r.event)
                  /\ last' = Result("create", key, c, "GOVERNANCE_PAUSE", r.id)
                  /\ UNCHANGED << pending, sync >>
          ELSE LET q == IF classify_tier(key) \in {"always_sync", "sync_with_review", "default"}
                        THEN QueueForSync(pending, sync, clock, key, "create", <<entry>>)
                        ELSE [pending |-> pending, sync |-> sync]
               IN /\ mem' = written
                  /\ pending' = q.pending
                  /\ sync' = q.sync
                  /\ last' = Result("create", key, c, "memory", "")
                  /\ UNCHANGED << st, issued >>
    /\ dirs' = dirs \cup Ancestors(ParentDir(key))
    /\ UNCHANGED << nextSpiral, conflicts, cloud, chronVars >>

\* create(key, content); the file of the key is a file of memories/, or, for the
\* key that leads there, the router's queue file.
Create(key, c) ==
    /\ clock <= MaxClock
    /\ clock' = clock + 1
    /\ IF should_pause("create", key)
       THEN LET r == RecordEvent(mem, st, clock, "pause",
                                 "Create operation requires review: " \o key,
                                 key, st.restraint_level)
            IN /\ mem' = r.mem
               /\ st' = r.st
               /\ issued' = Append(issued, r.event)
               /\ last' = Result("create", key, c, "GOVERNANCE_PAUSE", r.id)
               /\ UNCHANGED << dirs, pending, sync >>
       ELSE LET entry == AddMetadata(c, st, clock)
                queue == IF key = PendingFileKey THEN Append(pending, entry) ELSE pending
                q == IF classify_tier(key) \in {"always_sync", "sync_with_review", "default"}
                     THEN QueueForSync(queue, sync, clock, key, "create", <<entry>>)
                     ELSE [pending |-> queue, sync |-> sync]
            IN /\ dirs' = dirs \cup Ancestors(ParentDir(key))
               /\ mem' = IF key = PendingFileKey THEN mem ELSE WriteEntry(mem, key, entry)
               /\ pending' = q.pending
               /\ sync' = q.sync
               /\ last' = Result("create", key, c, "memory", "")
               /\ UNCHANGED << st, issued >>
    /\ UNCHANGED << nextSpiral, conflicts, cloud, chronVars >>

\* update(key, content): as create, but the parent directory is not made, so
\* open() raises FileNotFoundError when it is missing.
Update(key, c) ==
    /\ clock <= MaxClock
    /\ clock' = clock + 1
    /\ IF should_pause("update", key)
       THEN LET r == RecordEvent(mem, st, clock, "pause",
                                 "Update operation requires review: " \o key,
                                 key, st.restraint_level)
            IN /\ mem' = r.mem
               /\ st' = r.st
               /\ issued' = Append(issued, r.event)
               /\ last' = Result("update", key, c, "GOVERNANCE_PAUSE", r.id)
               /\ UNCHANGED << pending, sync >>
       ELSE IF ParentDir(key) \notin dirs /\ key # PendingFileKey
       THEN /\ last' = Result("update", key, c, "raise", "")
            /\ UNCHANGED << mem, st, issued, pending, sync >>
       ELSE LET entry == AddMetadata(c, st, clock)
                queue == IF key = PendingFileKey THEN Append(pending, entry) ELSE pending
                q == IF classify_tier(key) \in {"always_sync", "sync_with_review", "default"}
                     THEN QueueForSync(queue, sync, clock, key, "update", <<entry>>)
                     ELSE [pending |-> queue, sync |-> sync]
            IN /\ mem' = IF key = PendingFileKey THEN mem ELSE WriteEntry(mem, key, entry)
               /\ pending' = q.pending
               /\ sync' = q.sync
               /\ last' = Result("update", key, c, "memory", "")
               /\ UNCHANGED << st, issued >>
    /\ UNCHANGED << dirs, nextSpiral, conflicts, cloud, chronVars >>

\* Mutant: the file is removed on the first call.
DeleteRemovesAtOnce(key) ==
    /\ clock <= MaxClock
    /\ clock' = clock + 1
    /\ LET r == RecordEvent(mem, st, clock, "pause",
                            "Delete requested - requires confirmation",
                            key, DeleteRestraintScore)
       IN /\ mem' = Unlink(r.mem, key)
          /\ st' = r.st
          /\ issued' = Append(issued, r.event)
          /\ last' = Result("delete", key, "", "GOVERNANCE_PAUSE", r.id)
    /\ UNCHANGED << dirs, nextSpiral, syncVars, chronVars >>

\* delete(key): records the intent and returns a pause; nothing is removed.
Delete(key) ==
    /\ clock <= MaxClock
    /\ clock' = clock + 1
    /\ LET r == RecordEvent(mem, st, clock, "pause",
                            "Delete requested - requires confirmation",
                            key, DeleteRestraintScore)
       IN /\ mem' = r.mem
          /\ st' = r.st
          /\ issued' = Append(issued, r.event)
          /\ last' = Result("delete", key, "", "GOVERNANCE_PAUSE", r.id)
    /\ UNCHANGED << dirs, nextSpiral, syncVars, chronVars >>

\* confirm_delete(key, event_id)
ConfirmDelete(key, event_id) ==
    /\ clock <= MaxClock
    /\ clock' = clock + 1
    /\ IF ~FileExists(mem, key)
       THEN /\ last' = Result("confirm_delete", key, event_id, "False", "")
            /\ UNCHANGED << mem, st, issued >>
       ELSE LET r == RecordEvent(mem, st, clock, "proceed",
                                 "Delete confirmed by user",
                                 "key=" \o key \o ", approval=" \o event_id,
                                 ConfirmRestraintScore)
            IN /\ mem' = Unlink(r.mem, key)
               /\ st' = r.st
               /\ issued' = Append(issued, r.event)
               /\ last' = Result("confirm_delete", key, event_id, "True", r.id)
    /\ UNCHANGED << dirs, nextSpiral, syncVars, chronVars >>

\* adjust_restraint(delta, reason)
AdjustRestraint(delta) ==
    /\ clock <= MaxClock
    /\ clock' = clock + 1
    /\ LET old_level == st.restraint_level
           sum == old_level + delta
           capped == IF sum < MaxRestraint THEN sum ELSE MaxRestraint
           new_level == IF capped > MinRestraint THEN capped ELSE MinRestraint
           r == RecordEvent(mem, [st EXCEPT !.restraint_level = new_level], clock,
                            "adjust_restraint", "adjust",
                            "restraint: " \o ToString(old_level) \o " -> " \o ToString(new_level),
                            new_level)
           saved == SaveState(r.mem, r.st, clock)
       IN /\ mem' = saved.mem
          /\ st' = saved.st
          /\ issued' = Append(issued, r.event)
          /\ last' = Result("adjust_restraint", "", ToString(delta), "None", r.id)
    /\ UNCHANGED << dirs, nextSpiral, syncVars, chronVars >>

\* list.remove(x): seq without its first x.
RemoveFirst(seq, x) ==
    LET at == {i \in DOMAIN seq : seq[i] = x}
        first == CHOOSE i \in at : \A j \in at : i <= j
    IN IF at = {} THEN seq
       ELSE SubSeq(seq, 1, first - 1) \o SubSeq(seq, first + 1, Len(seq))

\* activate_protocol(protocol): nothing happens when it is active already.
ActivateProtocol(protocol) ==
    /\ clock <= MaxClock
    /\ clock' = clock + 1
    /\ IF \E i \in DOMAIN st.protocols_active : st.protocols_active[i] = protocol
       THEN /\ last' = Result("activate_protocol", "", protocol, "None", "")
            /\ UNCHANGED << mem, st, issued >>
       ELSE LET r == RecordEvent(mem, [st EXCEPT !.protocols_active = Append(@, protocol)],
                                 clock, "activate_protocol",
                                 "Protocol '" \o protocol \o "' activated", protocol,
                                 st.restraint_level)
                saved == SaveState(r.mem, r.st, clock)
            IN /\ mem' = saved.mem
               /\ st' = saved.st
               /\ issued' = Append(issued, r.event)
               /\ last' = Result("activate_protocol", "", protocol, "None", r.id)
    /\ UNCHANGED << dirs, nextSpiral, syncVars, chronVars >>

\* deactivate_protocol(protocol): nothing happens when it is not active.
DeactivateProtocol(protocol) ==
    /\ clock <= MaxClock
    /\ clock' = clock + 1
    /\ IF ~\E i \in DOMAIN st.protocols_active : st.protocols_active[i] = protocol
       THEN /\ last' = Result("deactivate_protocol", "", protocol, "None", "")
            /\ UNCHANGED << mem, st, issued >>
       ELSE LET r == RecordEvent(mem, [st EXCEPT !.protocols_active =
                                                    RemoveFirst(@, protocol)],
                                 clock, "deactivate_protocol",
                                 "Protocol '" \o protocol \o "' deactivated", protocol,
                                 st.restraint_level)
                saved == SaveState(r.mem, r.st, clock)
            IN /\ mem' = saved.mem
               /\ st' = saved.st
               /\ issued' = Append(issued, r.event)
               /\ last' = Result("deactivate_protocol", "", protocol, "None", r.id)
    /\ UNCHANGED << dirs, nextSpiral, syncVars, chronVars >>

\* _load_or_create_state on the directory as it is: the document of state.json,
\* or a new spiral when there is none.
LoadOrCreateState(fs, id, t) ==
    IF FileExists(fs, StateKey) THEN fs[StateKey][1] ELSE NewSpiralState(id, None, t)

\* SpiralStateMachine(spiral_dir) constructed again on the same directory.
Construct ==
    /\ clock <= MaxClock
    /\ clock' = clock + 1
    /\ st' = LoadOrCreateState(mem, SpiralName(nextSpiral), clock)
    /\ IF FileExists(mem, StateKey)
       THEN UNCHANGED << mem, nextSpiral >>
       ELSE /\ mem' = CreateNewSpiralFiles(mem, NewSpiralState(SpiralName(nextSpiral),
                                                               None, clock))
            /\ nextSpiral' = nextSpiral + 1
    /\ last' = Result("construct", "", "", "None", "")
    /\ UNCHANGED << dirs, issued, syncVars, chronVars >>

HistoryLimit == 10
SummaryLimit == 5
ReasonLimit == 50

\* seq[-n:]
LastN(seq, n) == IF Len(seq) > n THEN SubSeq(seq, Len(seq) - n + 1, Len(seq)) ELSE seq

\* _summarize_governance(events): decision and reason[:50] of the last five lines,
\* with "unknown" and "" for a line that lacks the key.
SummarizeGovernance(events) ==
    [ i \in DOMAIN LastN(events, SummaryLimit) |->
        LET event == LastN(events, SummaryLimit)[i]
            reason == IF "reason" \in DOMAIN event THEN event.reason ELSE ""
        IN [ decision |-> IF "decision" \in DOMAIN event THEN event.decision ELSE "unknown",
             reason |-> IF Len(reason) > ReasonLimit THEN SubSeq(reason, 1, ReasonLimit)
                        ELSE reason ] ]

\* The state initialize_spiral builds from the document found in state.json.
InheritedState(existing, governance, id, t) ==
    LET protocols == IF "protocols_active" \in DOMAIN existing
                     THEN existing.protocols_active ELSE DEFAULT_PROTOCOLS
        inherited == IF "protocols_active" \in DOMAIN existing
                     THEN existing.protocols_active ELSE <<>>
        base == [ spiral_id |-> id,
                  current_phase |-> "inheriting",
                  restraint_level |-> IF "restraint_level" \in DOMAIN existing
                                      THEN existing.restraint_level ELSE DefaultRestraint,
                  inherited_from |-> existing.spiral_id,
                  protocols_active |-> protocols,
                  governance_history |-> <<>>,
                  inherited_protocols |-> inherited,
                  created_at |-> t,
                  last_updated |-> t ]
    IN IF governance # <<>>
       THEN base @@ [inherited_governance_context |-> SummarizeGovernance(governance)]
       ELSE base

\* Mutant: the new controller starts from the default restraint.
InheritedStateDefaultRestraint(existing, governance, id, t) ==
    [InheritedState(existing, governance, id, t) EXCEPT !.restraint_level = DefaultRestraint]

\* The restraint level and protocols a new controller takes over.
Inherit(existing, governance, id, t) == InheritedState(existing, governance, id, t)

\* initialize_spiral(): inherit from the document in state.json, or bootstrap when
\* there is none; then save and record the inherit event.
InitializeSpiral ==
    /\ clock <= MaxClock
    /\ clock' = clock + 1
    /\ LET id == SpiralName(nextSpiral)
           exists == FileExists(mem, StateKey)
           new_state ==
             IF exists
             THEN Inherit(mem[StateKey][1], LastN(GovLog, HistoryLimit), id, clock)
             ELSE [NewSpiralState(id, None, clock) EXCEPT !.current_phase = "bootstrapping"]
           fs1 == IF exists THEN mem
                  ELSE CreateNewSpiralFiles(mem, NewSpiralState(id, None, clock))
           saved == SaveState(fs1, new_state, clock)
           r == RecordEvent(saved.mem, saved.st, clock, "inherit",
                            "New instance inheriting from " \o new_state.inherited_from,
                            "session_start", new_state.restraint_level)
       IN /\ mem' = r.mem
          /\ st' = r.st
          /\ issued' = Append(issued, r.event)
          /\ last' = Result("initialize_spiral", "", "", new_state.current_phase, r.id)
    /\ nextSpiral' = nextSpiral + 1
    /\ UNCHANGED << dirs, syncVars, chronVars >>

\* Time passes with no call in progress.
Wait ==
    /\ clock <= MaxClock
    /\ clock' = clock + 1
    /\ last' = Result("wait", "", "", "None", "")
    /\ UNCHANGED << memVars, syncVars, chronVars >>

\* queue_for_sync(key, operation, content), called on the router itself.
QueueForSyncCall(key, operation, opt) ==
    /\ clock <= MaxClock
    /\ clock' = clock + 1
    /\ LET q == QueueForSync(pending, sync, clock, key, operation, opt)
       IN /\ pending' = q.pending
          /\ sync' = q.sync
    /\ last' = Result("queue_for_sync", key, operation, "None", "")
    /\ UNCHANGED << memVars, conflicts, cloud, chronVars >>

\* configure_cloud(backend, credentials): credentials are written straight to
\* memories/technical/sync_credentials.json.
ConfigureCloud(backend, creds) ==
    /\ clock <= MaxClock
    /\ clock' = clock + 1
    /\ sync' = [sync EXCEPT !.cloud_backend = backend,
                            !.cloud_enabled = (backend # "local")]
    /\ IF creds # <<>>
       THEN /\ dirs' = dirs \cup Ancestors(ParentDir(CredsKey))
            /\ mem' = WriteDoc(mem, CredsKey, [credentials |-> creds[1]])
       ELSE UNCHANGED << dirs, mem >>
    /\ last' = Result("configure_cloud", "", backend, "configured", "")
    /\ UNCHANGED << st, nextSpiral, issued, pending, conflicts, cloud, chronVars >>

\* Mutant: the cloud_enabled check is missing.
SyncToCloudWhenDisabled ==
    /\ clock <= MaxClock
    /\ clock' = clock + 1
    /\ LET start == [ pending |-> pending, conflicts |-> conflicts, cloud |-> cloud,
                      synced |-> 0, nconflicts |-> 0, skipped |-> 0,
                      errors |-> <<>> ]
           res == SyncLoop(GetPending(pending), 1, start, sync.cloud_backend, clock)
           left == sync.pending_count - res.synced
       IN /\ pending' = res.pending
          /\ conflicts' = res.conflicts
          /\ cloud' = res.cloud
          /\ sync' = [sync EXCEPT !.last_sync = clock,
                                  !.pending_count = IF left > 0 THEN left ELSE 0,
                                  !.conflict_count = @ + res.nconflicts]
          /\ last' = Result("sync_to_cloud", "", ToString(res.synced),
                            IF sync.cloud_enabled THEN "done" ELSE "disabled", "")
    /\ UNCHANGED << memVars, chronVars >>

\* The pending entries the loop of sync_to_cloud gets through: all of them, or
\* those before the first that has no "key", where item["key"] raises KeyError
\* outside the loop's try.
Reached(items) ==
    LET keyless == {i \in DOMAIN items : "key" \notin DOMAIN items[i]}
    IN IF keyless = {} THEN items
       ELSE SubSeq(items, 1, (CHOOSE i \in keyless : \A j \in keyless : i <= j) - 1)

\* sync_to_cloud(); when the loop raises, the entries marked so far stay marked
\* and the state update after the loop is not reached.
SyncToCloud ==
    /\ clock <= MaxClock
    /\ clock' = clock + 1
    /\ IF ~sync.cloud_enabled
       THEN /\ last' = Result("sync_to_cloud", "", "", "disabled", "")
            /\ UNCHANGED << pending, conflicts, sync, cloud >>
       ELSE LET start == [ pending |-> pending, conflicts |-> conflicts,
                           cloud |-> cloud,
                           synced |-> 0, nconflicts |-> 0, skipped |-> 0,
                           errors |-> <<>> ]
                items == GetPending(pending)
                res == SyncLoop(Reached(items), 1, start, sync.cloud_backend, clock)
                left == sync.pending_count - res.synced
            IN /\ pending' = res.pending
               /\ conflicts' = res.conflicts
               /\ cloud' = res.cloud
               /\ IF Reached(items) # items
                  THEN /\ sync' = sync
                       /\ last' = Result("sync_to_cloud", "", ToString(res.synced),
                                         "raise", "")
                  ELSE /\ sync' = [sync EXCEPT !.last_sync = clock,
                                               !.pending_count = IF left > 0 THEN left ELSE 0,
                                               !.conflict_count = @ + res.nconflicts]
                       /\ last' = Result("sync_to_cloud", "", ToString(res.synced),
                                         "done", "")
    /\ UNCHANGED << memVars, chronVars >>

\* read(key), as a call: a key with no local file and a synced tier is looked up
\* in the cloud, and a version found there is cached as the local file.
Read(key) ==
    /\ clock <= MaxClock
    /\ clock' = clock + 1
    /\ IF FileExists(mem, key)
       THEN /\ last' = Result("read", key, "", "found", "")
            /\ UNCHANGED << mem, dirs, cloud >>
       ELSE IF classify_tier(key) \in {"always_sync", "sync_with_review"}
       THEN LET cloud_content == fetch_from_cloud(sync, cloud, key)
            IN /\ cloud' = IF sync.cloud_enabled
                           THEN [cloud EXCEPT !.calls = Append(@, HookCall("fetch", key))]
                           ELSE cloud
               /\ IF cloud_content # <<>>
                  THEN /\ dirs' = dirs \cup Ancestors(ParentDir(key))
                       /\ mem' = WriteDoc(mem, key, cloud_content[1])
                       /\ last' = Result("read", key, "", "cloud", "")
                  ELSE /\ last' = Result("read", key, "", "None", "")
                       /\ UNCHANGED << mem, dirs >>
       ELSE /\ last' = Result("read", key, "", "None", "")
            /\ UNCHANGED << mem, dirs, cloud >>
    /\ UNCHANGED << st, nextSpiral, issued, pending, conflicts, sync, chronVars >>

\* The backend changes on its own: another device stores a version of a key, or
\* the service starts or stops failing.
BackendBehaves(b) ==
    /\ cloud' = [cloud EXCEPT !.objects = b.objects, !.refuses = b.refuses,
                              !.raises = b.raises]
    /\ cloud' # cloud
    /\ UNCHANGED << clock, memVars, pending, conflicts, sync, chronVars, last >>

\* --------------------------------------------------- chronicle (VaultEvents)

SlugLen == 30

UpperLetters == "ABCDEFGHIJKLMNOPQRSTUVWXYZ"
LowerLetters == "abcdefghijklmnopqrstuvwxyz"

\* Each upper-case ASCII letter with its lower-case form.
LowerOf ==
    [ u \in {SubSeq(UpperLetters, j, j) : j \in 1..Len(UpperLetters)} |->
        LET j == CHOOSE k \in 1..Len(UpperLetters) : SubSeq(UpperLetters, k, k) = u
        IN SubSeq(LowerLetters, j, j) ]

\* str.lower() on one ASCII character.
LowerChar(ch) == IF ch \in DOMAIN LowerOf THEN LowerOf[ch] ELSE ch

\* str.lower()
RECURSIVE Lower(_)
Lower(str) ==
    IF str = "" THEN ""
    ELSE IF Len(str) = 1 THEN LowerChar(str)
    ELSE Lower(SubSeq(str, 1, Len(str) \div 2))
         \o Lower(SubSeq(str, Len(str) \div 2 + 1, Len(str)))

\* str.replace(" ", "_")
RECURSIVE SpacesToUnderscores(_)
SpacesToUnderscores(str) ==
    IF str = "" THEN ""
    ELSE (IF SubSeq(str, 1, 1) = " " THEN "_" ELSE SubSeq(str, 1, 1))
         \o SpacesToUnderscores(SubSeq(str, 2, Len(str)))

\* what_failed.lower().replace(" ", "_")[:30]
Slug(what_failed) ==
    LET u == SpacesToUnderscores(Lower(what_failed))
    IN IF Len(u) > SlugLen THEN SubSeq(u, 1, SlugLen) ELSE u

\* datetime.now().strftime("%Y%m%d")
DatePrefix(t) == ToString(t \div TicksPerDay)

\* str(uuid.uuid4())[:8]: a fresh id per record.
FreshId(n) == ToString(n)

EventFile(session_id, t) == "events/" \o session_id \o "/" \o DatePrefix(t) \o ".jsonl"
InsightFile(domain, session_id) ==
    "chronicle/insights/" \o domain \o "/" \o session_id \o ".jsonl"
LearningFile(session_id, what_failed) ==
    "chronicle/learnings/mistakes/" \o session_id \o "_" \o Slug(what_failed) \o ".jsonl"
TransformationFile(session_id) ==
    "chronicle/lineage/" \o session_id \o "_transformation.jsonl"

\* append_event(event_type, payload, session_id): {**base, **payload}, one line
\* appended to the session's file of the day.
AppendEvent(event_type, payload, session_id) ==
    /\ nextId <= MaxRecords
    /\ LET event == payload @@ [ event_id |-> FreshId(nextId), ts |-> clock,
                                 type |-> event_type, session_id |-> session_id ]
       IN chronicle' = AppendLine(chronicle, EventFile(session_id, clock), event)
    /\ nextId' = nextId + 1
    /\ clock' = clock + 1
    /\ last' = Result("append_event", session_id, event_type, "id", FreshId(nextId))
    /\ UNCHANGED << memVars, syncVars, derivedVars >>

\* record_insight(content, domain, session_id, intensity, context, builds_on)
RecordInsight(content, domain, session_id, intensity) ==
    /\ nextId <= MaxRecords
    /\ LET insight == [ type |-> "insight", insight_id |-> "ins_" \o FreshId(nextId),
                        session_id |-> session_id, domain |-> domain,
                        content |-> content, context |-> "", intensity |-> intensity,
                        builds_on |-> <<>>, timestamp |-> clock ]
       IN chronicle' = AppendLine(chronicle, InsightFile(domain, session_id), insight)
    /\ nextId' = nextId + 1
    /\ clock' = clock + 1
    /\ last' = Result("record_insight", session_id, domain, "id", "ins_" \o FreshId(nextId))
    /\ UNCHANGED << memVars, syncVars, derivedVars >>

\* record_learning(what_failed, why, correction, session_id, prevents)
RecordLearning(what_failed, session_id) ==
    /\ nextId <= MaxRecords
    /\ LET learning == [ type |-> "learning", learning_id |-> "learn_" \o FreshId(nextId),
                         session_id |-> session_id, category |-> "mistake",
                         what_failed |-> what_failed, why |-> "why",
                         correction |-> "correction", prevents |-> <<>>,
                         timestamp |-> clock ]
       IN chronicle' = AppendLine(chronicle, LearningFile(session_id, what_failed), learning)
    /\ nextId' = nextId + 1
    /\ clock' = clock + 1
    /\ last' = Result("record_learning", session_id, what_failed, "id",
                      "learn_" \o FreshId(nextId))
    /\ UNCHANGED << memVars, syncVars, derivedVars >>

\* record_transformation(what_changed, why, session_id, intensity)
RecordTransformation(what_changed, session_id, intensity) ==
    /\ nextId <= MaxRecords
    /\ LET transformation == [ type |-> "transformation",
                               transformation_id |-> "trans_" \o FreshId(nextId),
                               session_id |-> session_id, what_changed |-> what_changed,
                               why |-> "why", intensity |-> intensity,
                               timestamp |-> clock ]
       IN chronicle' = AppendLine(chronicle, TransformationFile(session_id), transformation)
    /\ nextId' = nextId + 1
    /\ clock' = clock + 1
    /\ last' = Result("record_transformation", session_id, what_changed, "id",
                      "trans_" \o FreshId(nextId))
    /\ UNCHANGED << memVars, syncVars, derivedVars >>

\* Midnight passes with no call in progress.
NextDay ==
    /\ clock \div TicksPerDay < MaxDays
    /\ clock' = (clock \div TicksPerDay + 1) * TicksPerDay
    /\ last' = Result("next_day", "", "", "None", "")
    /\ UNCHANGED << memVars, syncVars, chronVars >>

\* ----------------------------------------------- snapshots (VaultEvents)

\* f"snap_{datetime.now().strftime('%Y%m%d_%H%M%S')}": the time to the second.
SnapId(t) == "snap_" \o ToString(t \div TicksPerSecond)

SnapFile(session_id, t) == "snapshots/" \o session_id \o "/" \o SnapId(t) \o ".json"

\* open(path, "w") with nothing written: the file exists and is empty.
Truncate(fs, path) == [p \in DOMAIN fs \cup {path} |-> IF p = path THEN <<>> ELSE fs[p]]

\* json.load(f): the document, or JSONDecodeError on an empty file.
JsonLoad(fs, path) ==
    IF fs[path] = <<>> THEN [outcome |-> "raise", doc |-> <<>>]
    ELSE [outcome |-> "snapshot", doc |-> <<fs[path][1]>>]

\* create_snapshot(session_id, state): the snapshot file is opened for writing,
\* then json.dumps(snapshot, f, indent=2) is called with the file as a second
\* positional argument, which json.dumps does not take: TypeError is raised
\* with the file left empty, before the latest link is touched and before any
\* id is returned.
CreateSnapshot(session_id, state) ==
    /\ clock <= MaxClock
    /\ clock' = clock + 1
    /\ snapshots' = Truncate(snapshots, SnapFile(session_id, clock))
    /\ last' = Result("create_snapshot", session_id, state, "raise", "")
    /\ UNCHANGED << memVars, syncVars, chronicle, nextId, runs, inflight, cache, rebuilt, latest, answer >>

\* The seconds of which the session has a snapshot file (glob("snap_*.json")).
SnapSeconds(fs, session_id) ==
    {n \in 0..(MaxClock + 1) : SnapFile(session_id, n * TicksPerSecond) \in DOMAIN fs}

\* get_latest_snapshot(session_id); session_id is <<>> for None.  The file
\* names sort as their timestamps do.
get_latest_snapshot(fs, link, session_id) ==
    IF session_id # <<>> /\ session_id # <<"">>
    THEN LET seconds == SnapSeconds(fs, session_id[1])
         IN IF seconds = {} THEN [outcome |-> "None", doc |-> <<>>]
            ELSE LET newest == CHOOSE n \in seconds : \A m \in seconds : m <= n
                 IN JsonLoad(fs, SnapFile(session_id[1], newest * TicksPerSecond))
    ELSE IF link = None \/ link \notin DOMAIN fs
         THEN [outcome |-> "None", doc |-> <<>>]
         ELSE JsonLoad(fs, link)

\* A call of get_latest_snapshot; the snapshot directory is only read.
GetLatestSnapshot(session_id) ==
    /\ answer' = [ op |-> "get_latest_snapshot", session |-> session_id,
                   result |-> get_latest_snapshot(snapshots, latest, session_id) ]
    /\ last' = Result("get_latest_snapshot", "", "", "read", "")
    /\ UNCHANGED << clock, memVars, syncVars, chronicle, nextId, runs, inflight, cache, rebuilt,
                    snapshots, latest >>

\* ------------------------------------------------- index (CacheBuilder)

MinKeywordLength == 4

\* entry.get(key, default)
Get(entry, key, default) == IF key \in DOMAIN entry THEN entry[key] ELSE default

\* str.isalpha() on ASCII text
IsAlpha(w) ==
    /\ w # ""
    /\ \A i \in 1..Len(w) :
         \E j \in 1..Len(LowerLetters) :
            \/ SubSeq(LowerLetters, j, j) = SubSeq(w, i, i)
            \/ SubSeq(UpperLetters, j, j) = SubSeq(w, i, i)

\* str.split() on blanks: the words of text after the word in progress, cur.
RECURSIVE SplitWords(_, _)
SplitWords(text, cur) ==
    IF text = "" THEN (IF cur = "" THEN {} ELSE {cur})
    ELSE IF SubSeq(text, 1, 1) = " "
         THEN (IF cur = "" THEN {} ELSE {cur}) \cup SplitWords(SubSeq(text, 2, Len(text)), "")
         ELSE SplitWords(SubSeq(text, 2, Len(text)), cur \o SubSeq(text, 1, 1))

\* Mutant: the text is split without being lower-cased.
extract_keywords_CaseSensitive(text) ==
    {w \in SplitWords(text, "") : Len(w) >= MinKeywordLength /\ IsAlpha(w)}

\* _extract_keywords(text)
extract_keywords(text) ==
    {w \in SplitWords(Lower(text), "") : Len(w) >= MinKeywordLength /\ IsAlpha(w)}

\* Mutant: the scan pattern also matches the index's own .json files.
ScannedFilesWithIndex(store, index_files) == DOMAIN store \cup DOMAIN index_files

\* glob("vault/**/*.jsonl"): every partition file; the index files are .json.
ScannedFiles(store, index_files) == DOMAIN store

\* The (file, line number) positions of the entries rebuild_cache loads.
ScannedEntries(store, index_files) ==
    UNION { {<<f, i>> : i \in DOMAIN store[f]} :
            f \in ScannedFiles(store, index_files) \cap DOMAIN store }

\* The files of the given positions (str(file_path) added to a set).
FilesOf(positions) == {pos[1] : pos \in positions}

\* rebuild_cache(): the three maps built from the scan.
inverted_index(store, index_files) ==
    LET kw(e) == extract_keywords(Get(e, "content", ""))
        terms == UNION {kw(store[q[1]][q[2]]) : q \in ScannedEntries(store, index_files)}
    IN [ term \in terms |->
           LET hits == {q \in ScannedEntries(store, index_files) :
                          term \in kw(store[q[1]][q[2]])}
           IN [files |-> FilesOf(hits), frequency |-> Cardinality(hits)] ]

session_map(store, index_files) ==
    LET sid(e) == Get(e, "session_id", "")
        sessions == {sid(store[q[1]][q[2]]) : q \in ScannedEntries(store, index_files)} \ {""}
    IN [ session \in sessions |->
           FilesOf({q \in ScannedEntries(store, index_files) :
                       sid(store[q[1]][q[2]]) = session}) ]

domain_map(store, index_files) ==
    LET dom(e) == IF Get(e, "type", "") = "insight" THEN Get(e, "domain", "") ELSE ""
        domains == {dom(store[q[1]][q[2]]) : q \in ScannedEntries(store, index_files)} \ {""}
    IN [ domain \in domains |->
           FilesOf({q \in ScannedEntries(store, index_files) :
                       dom(store[q[1]][q[2]]) = domain}) ]

\* The statistics rebuild_cache returns.
RebuildStats(store, index_files) ==
    [ files_scanned |-> Cardinality(ScannedFiles(store, index_files)),
      total_entries |-> Cardinality(ScannedEntries(store, index_files)),
      unique_keywords |-> Cardinality(DOMAIN inverted_index(store, index_files)),
      sessions_indexed |-> Cardinality(DOMAIN session_map(store, index_files)),
      domains_indexed |-> Cardinality(DOMAIN domain_map(store, index_files)) ]

NoRebuild == [done |-> FALSE]

\* A line json.loads cannot parse, as _load_jsonl meets it.
MalformedEntry == [malformed |-> TRUE]

IsMalformed(line) == "malformed" \in DOMAIN line

\* _load_jsonl raises in the scan: some scanned file holds a line that is not
\* JSON, and json.loads is called on every line with nothing to catch its error.
ScanRaises(store, index_files) ==
    \E q \in ScannedEntries(store, index_files) : IsMalformed(store[q[1]][q[2]])

\* rebuild_cache(): scan, then overwrite the three index documents; a raise in
\* the scan leaves the call before any document is written.
RebuildCache ==
    /\ IF ScanRaises(chronicle, cache)
       THEN /\ last' = Result("rebuild_cache", "", "", "raise", "")
            /\ UNCHANGED << cache, rebuilt >>
       ELSE /\ cache' = [ f \in {"inverted_index.json", "session_map.json",
                                 "domain_map.json"} |->
                            IF f = "inverted_index.json"
                            THEN <<inverted_index(chronicle, cache)>>
                            ELSE IF f = "session_map.json"
                            THEN <<session_map(chronicle, cache)>>
                            ELSE <<domain_map(chronicle, cache)>> ]
            /\ rebuilt' = [ done |-> TRUE,
                            store |-> chronicle,
                            stats |-> RebuildStats(chronicle, cache),
                            from_scratch |-> DOMAIN cache = {},
                            repeat |-> rebuilt.done /\ rebuilt.store = chronicle ]
            /\ last' = Result("rebuild_cache", "", "", "stats", "")
    /\ UNCHANGED << clock, memVars, syncVars, chronicle, nextId, runs, inflight, snapshots, latest, answer >>

\* A partition file gets a line that is not JSON (a hand edit, an append cut
\* short): the store is plain files that anything may write.
MalformedLine(f) ==
    /\ f \in DOMAIN chronicle
    /\ \A i \in DOMAIN chronicle[f] : ~IsMalformed(chronicle[f][i])
    /\ chronicle' = AppendLine(chronicle, f, MalformedEntry)
    /\ last' = Result("malformed_line", f, "", "None", "")
    /\ UNCHANGED << clock, memVars, syncVars, nextId, derivedVars >>

\* The processes that run rebuild_cache on one vault: the server's tool and the
\* command line's rebuild-cache.
Procs == {"server", "cli"}

\* The three index documents, in the order rebuild_cache writes them.
WriteOrder == << "inverted_index.json", "session_map.json", "domain_map.json" >>

\* The documents a scan of the store yields.
IndexDocs(store, index_files) ==
    [ f \in {"inverted_index.json", "session_map.json", "domain_map.json"} |->
        IF f = "inverted_index.json" THEN inverted_index(store, index_files)
        ELSE IF f = "session_map.json" THEN session_map(store, index_files)
        ELSE domain_map(store, index_files) ]

\* No rebuild_cache is in progress.
IdleRun == [ pc |-> "idle", written |-> 0, store |-> EmptyFs ]
NoRuns == [ p \in Procs |-> IdleRun ]

\* rebuild_cache() of process p, step by step; the call's result is recorded
\* when it returns or raises.  First the scan: nothing stops it from starting
\* while another execution is in progress.
RebuildScan(p) ==
    /\ runs[p].pc = "idle"
    /\ IF ScanRaises(chronicle, cache)
       THEN /\ last' = Result("rebuild_cache", p, "", "raise", "")
            /\ UNCHANGED runs
       ELSE /\ runs' = [runs EXCEPT ![p] = [ pc |-> "scanned", written |-> 0,
                                             store |-> chronicle ]]
            /\ UNCHANGED last
    /\ UNCHANGED << clock, memVars, syncVars, chronicle, nextId, inflight, cache, rebuilt,
                    snapshots, latest, answer >>

\* open(path, "w") of the next document: the file exists and is empty.
RebuildOpen(p) ==
    /\ runs[p].pc = "scanned"
    /\ cache' = Truncate(cache, WriteOrder[runs[p].written + 1])
    /\ runs' = [runs EXCEPT ![p].pc = "opened"]
    /\ UNCHANGED << clock, memVars, syncVars, chronicle, nextId, inflight, rebuilt,
                    snapshots, latest, answer, last >>

\* json.dump into the open file; after the third document the call returns its
\* statistics.
RebuildDump(p) ==
    /\ runs[p].pc = "opened"
    /\ LET f == WriteOrder[runs[p].written + 1]
           docs == IndexDocs(runs[p].store, EmptyFs)
       IN cache' = WriteDoc(cache, f, docs[f])
    /\ IF runs[p].written + 1 = Len(WriteOrder)
       THEN /\ runs' = [runs EXCEPT ![p] = IdleRun]
            /\ last' = Result("rebuild_cache", p, "", "stats", "")
       ELSE /\ runs' = [runs EXCEPT ![p].pc = "scanned", ![p].written = @ + 1]
            /\ UNCHANGED last
    /\ UNCHANGED << clock, memVars, syncVars, chronicle, nextId, inflight, rebuilt, snapshots,
                    latest, answer >>

\* The process is killed in the middle of rebuild_cache: what it wrote stays.
RebuildInterrupted(p) ==
    /\ runs[p].pc # "idle"
    /\ runs' = [runs EXCEPT ![p] = IdleRun]
    /\ last' = Result("rebuild_cache", p, "", "interrupted", "")
    /\ UNCHANGED << clock, memVars, syncVars, chronicle, nextId, inflight, cache, rebuilt,
                    snapshots, latest, answer >>

\* get_cache_stats(): no_cache without inverted_index.json; otherwise the three
\* documents are opened and parsed, which raises on a missing or an empty file.
get_cache_stats(index_files) ==
    IF "inverted_index.json" \notin DOMAIN index_files
    THEN [outcome |-> "dict", status |-> "no_cache",
          unique_keywords |-> 0, sessions_indexed |-> 0, domains_indexed |-> 0]
    ELSE IF \E i \in DOMAIN WriteOrder :
               \/ WriteOrder[i] \notin DOMAIN index_files
               \/ index_files[WriteOrder[i]] = <<>>
    THEN [outcome |-> "raise", status |-> "",
          unique_keywords |-> 0, sessions_indexed |-> 0, domains_indexed |-> 0]
    ELSE [outcome |-> "dict", status |-> "cached",
          unique_keywords |-> Cardinality(DOMAIN index_files["inverted_index.json"][1]),
          sessions_indexed |-> Cardinality(DOMAIN index_files["session_map.json"][1]),
          domains_indexed |-> Cardinality(DOMAIN index_files["domain_map.json"][1])]

\* A call of get_cache_stats; the index is only read.
GetCacheStats ==
    /\ answer' = [ op |-> "get_cache_stats", result |-> get_cache_stats(cache) ]
    /\ last' = Result("get_cache_stats", "", "", "dict", "")
    /\ UNCHANGED << clock, memVars, syncVars, chronicle, nextId, runs, inflight, cache, rebuilt,
                    snapshots, latest >>

\* Every index document is removed (for f in cache_dir.glob("*.json"): f.unlink()).
DeleteIndexFiles ==
    /\ DOMAIN cache # {}
    /\ cache' = EmptyFs
    /\ last' = Result("delete_index_files", "", "", "None", "")
    /\ UNCHANGED << clock, memVars, syncVars, chronicle, nextId, runs, inflight, rebuilt, snapshots,
                    latest, answer >>

\* --------------------------------------------------------- queries

\* str.split("/")
RECURSIVE Segments(_, _)
Segments(path, cur) ==
    IF path = "" THEN <<cur>>
    ELSE IF SubSeq(path, 1, 1) = "/"
         THEN <<cur>> \o Segments(SubSeq(path, 2, Len(path)), "")
         ELSE Segments(SubSeq(path, 2, Len(path)), cur \o SubSeq(path, 1, 1))

\* The index of the "]" that closes the character class opened at pat[1] = "[",
\* or 0 when there is none: a "]" right after "[" or "[!" is a member.
RECURSIVE ClassEndFrom(_, _)
ClassEndFrom(pat, i) ==
    IF i > Len(pat) THEN 0
    ELSE IF SubSeq(pat, i, i) = "]" THEN i
    ELSE ClassEndFrom(pat, i + 1)

ClassEnd(pat) ==
    IF Len(pat) >= 2 /\ SubSeq(pat, 2, 2) = "!" THEN ClassEndFrom(pat, 4)
    ELSE ClassEndFrom(pat, 3)

\* ch against the class pat[1..end] (members listed one by one, "!" negates).
InClass(pat, end, ch) ==
    LET negated == SubSeq(pat, 2, 2) = "!"
        first == IF negated THEN 3 ELSE 2
        member == \E i \in first..(end - 1) : SubSeq(pat, i, i) = ch
    IN IF negated THEN ~member ELSE member

\* fnmatch.fnmatchcase(name, pat): "*", "?" and "[...]" are magic.
RECURSIVE FnMatch(_, _)
FnMatch(pat, name) ==
    IF pat = "" THEN name = ""
    ELSE LET c == SubSeq(pat, 1, 1)
             rest == SubSeq(pat, 2, Len(pat))
             tail == SubSeq(name, 2, Len(name))
         IN IF c = "*"
            THEN FnMatch(rest, name) \/ (name # "" /\ FnMatch(pat, tail))
            ELSE IF c = "?"
            THEN name # "" /\ FnMatch(rest, tail)
            ELSE IF c = "[" /\ ClassEnd(pat) > 0
            THEN /\ name # ""
                 /\ InClass(pat, ClassEnd(pat), SubSeq(name, 1, 1))
                 /\ FnMatch(SubSeq(pat, ClassEnd(pat) + 1, Len(pat)), tail)
            ELSE name # "" /\ SubSeq(name, 1, 1) = c /\ FnMatch(rest, tail)

\* glob.has_magic
HasMagic(segment) ==
    \E i \in 1..Len(segment) : SubSeq(segment, i, i) \in {"*", "?", "["}

\* One path component against one pattern component: a literal component must
\* be the name itself; a magic one is matched by fnmatch and, unless it starts
\* with a dot itself, never matches a name that starts with a dot.
SegmentMatch(pat, name) ==
    IF ~HasMagic(pat) THEN name = pat
    ELSE /\ FnMatch(pat, name)
         /\ (StartsWith(name, ".") => StartsWith(pat, "."))

\* glob.glob(pattern) for a pattern without "**": component by component.
GlobMatch(pattern, path) ==
    LET ps == Segments(pattern, "")
        ns == Segments(path, "")
    IN /\ Len(ps) = Len(ns)
       /\ \A i \in DOMAIN ps : SegmentMatch(ps[i], ns[i])

Glob(store, pattern) == {f \in DOMAIN store : GlobMatch(pattern, f)}

\* The entries of the given files (_load_jsonl on each).
EntriesOf(store, files) ==
    UNION { {store[f][i] : i \in DOMAIN store[f]} : f \in files }

\* Mutant: the intensity test is turned round.
recall_insights_AtMost(store, domain, min_intensity) ==
    LET dir == IF domain = <<>> \/ domain = <<"">> THEN "*" ELSE domain[1]
        files == Glob(store, "chronicle/insights/" \o dir \o "/*.jsonl")
    IN { entry \in EntriesOf(store, files) :
           /\ Get(entry, "type", "") = "insight"
           /\ Get(entry, "intensity", 0) <= min_intensity }

\* recall_insights(domain, min_intensity); domain is <<>> for None.  The records
\* come in the order glob lists the files, which the file system decides, so
\* the result is kept as the set of records (their ids are all different).
recall_insights(store, domain, min_intensity) ==
    LET dir == IF domain = <<>> \/ domain = <<"">> THEN "*" ELSE domain[1]
        files == Glob(store, "chronicle/insights/" \o dir \o "/*.jsonl")
    IN { entry \in EntriesOf(store, files) :
           /\ Get(entry, "type", "") = "insight"
           /\ Get(entry, "intensity", 0) >= min_intensity }

\* haystack contains needle (needle in haystack)
Contains(haystack, needle) ==
    \/ needle = ""
    \/ \E i \in 1..(Len(haystack) - Len(needle) + 1) :
          SubSeq(haystack, i, i + Len(needle) - 1) = needle

\* json.dumps(entry) of a learning record (no text in it needs escaping).
Dumps(entry) ==
    "{\"type\": \"" \o entry.type
    \o "\", \"learning_id\": \"" \o entry.learning_id
    \o "\", \"session_id\": \"" \o entry.session_id
    \o "\", \"category\": \"" \o entry.category
    \o "\", \"what_failed\": \"" \o entry.what_failed
    \o "\", \"why\": \"" \o entry.why
    \o "\", \"correction\": \"" \o entry.correction
    \o "\", \"prevents\": [], \"timestamp\": \"" \o ToString(entry.timestamp) \o "\"}"

\* Mutant: the action is compared as typed.
check_mistakes_CaseSensitive(store, action, context) ==
    LET files == Glob(store, "chronicle/learnings/mistakes/*.jsonl")
    IN { entry \in EntriesOf(store, files) :
           /\ Get(entry, "type", "") = "learning"
           /\ Contains(Lower(Get(entry, "what_failed", "")), action)
           /\ (context # <<>> /\ context # <<"">>)
                 => Contains(Lower(Dumps(entry)), Lower(context[1])) }

\* check_mistakes(action, context); context is <<>> for None.
check_mistakes(store, action, context) ==
    LET files == Glob(store, "chronicle/learnings/mistakes/*.jsonl")
    IN { entry \in EntriesOf(store, files) :
           /\ Get(entry, "type", "") = "learning"
           /\ Contains(Lower(Get(entry, "what_failed", "")), Lower(action))
           /\ (context # <<>> /\ context # <<"">>)
                 => Contains(Lower(Dumps(entry)), Lower(context[1])) }

NoAnswer == [op |-> "none"]

\* A call of recall_insights; the store is only read.
RecallInsights(domain, min_intensity) ==
    /\ answer' = [ op |-> "recall_insights", domain |-> domain, min |-> min_intensity,
                   result |-> recall_insights(chronicle, domain, min_intensity) ]
    /\ last' = Result("recall_insights", "", "", "list", "")
    /\ UNCHANGED << clock, memVars, syncVars, chronicle, nextId, runs, inflight, cache, rebuilt,
                    snapshots, latest >>

\* A call of check_mistakes; the store is only read.
CheckMistakes(action, context) ==
    /\ answer' = [ op |-> "check_mistakes", action |-> action, context |-> context,
                   result |-> check_mistakes(chronicle, action, context) ]
    /\ last' = Result("check_mistakes", "", action, "list", "")
    /\ UNCHANGED << clock, memVars, syncVars, chronicle, nextId, runs, inflight, cache, rebuilt,
                    snapshots, latest >>

\* get_values(): the value_observed records under values/principles.
get_values(store) ==
    LET files == Glob(store, "chronicle/values/principles/*.jsonl")
    IN { entry \in EntriesOf(store, files) : Get(entry, "type", "") = "value_observed" }

\* json.dumps(entry) of a chronicle record of any of the three recorded types.
DumpsEntry(entry) ==
    IF entry.type = "learning" THEN Dumps(entry)
    ELSE IF entry.type = "insight"
    THEN "{\"type\": \"insight\", \"insight_id\": \"" \o entry.insight_id
         \o "\", \"session_id\": \"" \o entry.session_id
         \o "\", \"domain\": \"" \o entry.domain
         \o "\", \"content\": \"" \o entry.content
         \o "\", \"context\": \"" \o entry.context
         \o "\", \"intensity\": 0." \o ToString(entry.intensity)
         \o ", \"builds_on\": [], \"timestamp\": \"" \o ToString(entry.timestamp) \o "\"}"
    ELSE "{\"type\": \"" \o entry.type
         \o "\", \"transformation_id\": \"" \o entry.transformation_id
         \o "\", \"session_id\": \"" \o entry.session_id
         \o "\", \"what_changed\": \"" \o entry.what_changed
         \o "\", \"why\": \"" \o entry.why
         \o "\", \"intensity\": 0." \o ToString(entry.intensity)
         \o ", \"timestamp\": \"" \o ToString(entry.timestamp) \o "\"}"

\* search(query, types): the records of every .jsonl file under the chronicle
\* whose JSON text holds the query, whatever the case; types is <<>> for None.
search(store, query, types) ==
    LET files == {f \in DOMAIN store : StartsWith(f, "chronicle/") /\ EndsWith(f, ".jsonl")}
    IN { entry \in EntriesOf(store, files) :
           /\ Contains(Lower(DumpsEntry(entry)), Lower(query))
           /\ types # <<>> => Get(entry, "type", "") \in types[1] }

\* get_spiral_context(session_id): the lineage records of the session.  The
\* order of the files is the file system's, so builds_on is kept as a set.
get_spiral_context(store, session_id) ==
    LET files == Glob(store, "chronicle/lineage/*" \o session_id \o "*.jsonl")
        lineage == { entry \in EntriesOf(store, files) :
                       /\ Get(entry, "type", "") = "lineage"
                       /\ Get(entry, "session_id", "") = session_id }
    IN [ session_id |-> session_id,
         builds_on |-> UNION { { Get(e, "builds_on", <<>>)[i] :
                                   i \in DOMAIN Get(e, "builds_on", <<>>) } : e \in lineage },
         lineage_chain |-> IF lineage = {} THEN <<>>
                           ELSE Get(CHOOSE e \in lineage : TRUE, "lineage_chain", <<>>) ]

\* Mutant: the index file is opened without the test that it exists.
search_cache_Unchecked(index_files, keyword) ==
    IF "inverted_index.json" \notin DOMAIN index_files
       \/ index_files["inverted_index.json"] = <<>>
    THEN [outcome |-> "raise", files |-> {}]
    ELSE [ outcome |-> "list",
           files |-> Get(index_files["inverted_index.json"][1], Lower(keyword),
                         [files |-> {}, frequency |-> 0]).files ]

\* search_cache(keyword): the files the index lists for the keyword; an empty
\* list with no inverted_index.json; json.load raises on an empty file.
search_cache(index_files, keyword) ==
    IF "inverted_index.json" \notin DOMAIN index_files
    THEN [outcome |-> "list", files |-> {}]
    ELSE IF index_files["inverted_index.json"] = <<>>
    THEN [outcome |-> "raise", files |-> {}]
    ELSE [ outcome |-> "list",
           files |-> Get(index_files["inverted_index.json"][1], Lower(keyword),
                         [files |-> {}, frequency |-> 0]).files ]

\* A call of get_values; the store is only read.
GetValues ==
    /\ answer' = [ op |-> "get_values", result |-> get_values(chronicle) ]
    /\ last' = Result("get_values", "", "", "list", "")
    /\ UNCHANGED << clock, memVars, syncVars, chronicle, nextId, runs, inflight, cache, rebuilt,
                    snapshots, latest >>

\* A call of search; the store is only read.
Search(query) ==
    /\ answer' = [ op |-> "search", query |-> query,
                   result |-> search(chronicle, query, <<>>) ]
    /\ last' = Result("search", "", query, "list", "")
    /\ UNCHANGED << clock, memVars, syncVars, chronicle, nextId, runs, inflight, cache, rebuilt,
                    snapshots, latest >>

\* A call of get_spiral_context; the store is only read.
GetSpiralContext(session_id) ==
    /\ answer' = [ op |-> "get_spiral_context", session |-> session_id,
                   result |-> get_spiral_context(chronicle, session_id) ]
    /\ last' = Result("get_spiral_context", session_id, "", "dict", "")
    /\ UNCHANGED << clock, memVars, syncVars, chronicle, nextId, runs, inflight, cache, rebuilt,
                    snapshots, latest >>

\* A call of search_cache; the index is only read.
SearchCache(keyword) ==
    /\ answer' = [ op |-> "search_cache", keyword |-> keyword,
                   result |-> search_cache(cache, keyword) ]
    /\ last' = Result("search_cache", "", keyword, "list", "")
    /\ UNCHANGED << clock, memVars, syncVars, chronicle, nextId, runs, inflight, cache, rebuilt,
                    snapshots, latest >>

\* TempleVaultMemoryTool._normalize_path(path): the key under /memories, or
\* ValueError for a path outside /memories or a key that holds "..".
StripSlashes(str) ==
    LET starts == {i \in 1..Len(str) : SubSeq(str, i, i) # "/"}
    IN IF starts = {} THEN ""
       ELSE SubSeq(str, CHOOSE i \in starts : \A j \in starts : i <= j, Len(str))

normalize_path(path) ==
    IF ~StartsWith(path, "/memories") THEN [outcome |-> "ValueError", key |-> ""]
    ELSE LET key == StripSlashes(SubSeq(path, Len("/memories") + 1, Len(path)))
         IN IF Contains(key, "..") THEN [outcome |-> "ValueError", key |-> ""]
            ELSE [outcome |-> "key", key |-> key]

\* TempleVaultMemoryTool.create(command): the path is normalised, and the
\* handler's create is called with the key only if that did not raise.
ToolCreate(path, c) ==
    IF normalize_path(path).outcome = "ValueError"
    THEN /\ clock <= MaxClock
         /\ clock' = clock + 1
         /\ last' = Result("tool_create", path, c, "ValueError", "")
         /\ UNCHANGED << memVars, syncVars, chronVars >>
    ELSE Create(normalize_path(path).key, c)

\* ----------------------------------------------- writers in several processes

\* No call is in progress in any process.
IdleCall == [pc |-> "idle"]
NoCalls == [p \in Procs |-> IdleCall]

\* Mutant: the file is opened without O_APPEND and positioned at its end.
OpenAtEnd(fs, path) ==
    [ path |-> path, append |-> FALSE,
      position |-> IF path \in DOMAIN fs THEN Len(fs[path]) ELSE 0 ]

\* open(path, "a"): a descriptor with O_APPEND, positioned at the end of the file.
OpenForAppend(fs, path) ==
    [ path |-> path, append |-> TRUE,
      position |-> IF path \in DOMAIN fs THEN Len(fs[path]) ELSE 0 ]

\* The write of one buffered line when the file object is closed: with O_APPEND
\* the line goes to the end the file has now; without it, to the descriptor's
\* position, over what is there.
FdWrite(fs, fd, line) ==
    IF fd.append
    THEN AppendLine(fs, fd.path, line)
    ELSE LET old == fs[fd.path]
             keep == IF Len(old) > fd.position THEN fd.position ELSE Len(old)
         IN [fs EXCEPT ![fd.path] =
                SubSeq(old, 1, keep) \o <<line>> \o SubSeq(old, fd.position + 2, Len(old))]

\* record_insight in process p, up to the open of the partition file: the record
\* is built and the file exists from here on.
RecordInsightOpen(p, content, domain, session_id, intensity) ==
    /\ inflight[p].pc = "idle"
    /\ nextId <= MaxRecords
    /\ LET insight == [ type |-> "insight", insight_id |-> "ins_" \o FreshId(nextId),
                        session_id |-> session_id, domain |-> domain,
                        content |-> content, context |-> "", intensity |-> intensity,
                        builds_on |-> <<>>, timestamp |-> clock ]
           path == InsightFile(domain, session_id)
       IN /\ inflight' = [inflight EXCEPT ![p] =
                            [ pc |-> "appending", line |-> insight,
                              fd |-> OpenForAppend(chronicle, path) ]]
          /\ chronicle' = IF FileExists(chronicle, path) THEN chronicle
                          ELSE Truncate(chronicle, path)
    /\ nextId' = nextId + 1
    /\ clock' = clock + 1
    /\ UNCHANGED << memVars, syncVars, cache, rebuilt, runs, snapshots, latest, answer,
                    last >>

\* record_insight in process p, from the write to the return of the id.
RecordInsightWrite(p) ==
    /\ inflight[p].pc = "appending"
    /\ chronicle' = FdWrite(chronicle, inflight[p].fd, inflight[p].line)
    /\ inflight' = [inflight EXCEPT ![p] = IdleCall]
    /\ last' = Result("record_insight", inflight[p].line.session_id,
                      inflight[p].line.domain, "id", inflight[p].line.insight_id)
    /\ UNCHANGED << clock, memVars, syncVars, nextId, cache, rebuilt, runs, snapshots,
                    latest, answer >>

\* sync_to_cloud() in process p, step by step; the process has constructed its
\* router from sync_state.json when the call starts.  First get_pending: the
\* entries the loop will go through.
SyncStart(p) ==
    /\ inflight[p].pc = "idle"
    /\ clock <= MaxClock
    /\ sync.cloud_enabled
    /\ clock' = clock + 1
    /\ inflight' = [inflight EXCEPT ![p] =
                      [ pc |-> "syncing", items |-> Reached(GetPending(pending)),
                        raises |-> Reached(GetPending(pending)) # GetPending(pending),
                        i |-> 1, state |-> sync, synced |-> 0, nconflicts |-> 0,
                        errors |-> <<>>, lines |-> <<>> ]]
    /\ UNCHANGED << memVars, syncVars, chronicle, nextId, cache, rebuilt, runs, snapshots,
                    latest, answer, last >>

\* One round of the loop up to the read in _mark_synced: the conflict check of a
\* reviewed entry, the push, and, when it succeeded, the lines of pending.jsonl
\* read into memory.
SyncPush(p) ==
    /\ inflight[p].pc = "syncing"
    /\ inflight[p].i <= Len(inflight[p].items)
    /\ LET run == inflight[p]
           item == run.items[run.i]
           backend == run.state.cloud_backend
           reviewed == item.tier = "sync_with_review"
           conflict == reviewed /\ CheckConflict(cloud, item.key) # <<>>
           out == PushToCloud(cloud, backend, item.key)
           fetches == IF reviewed THEN <<HookCall("fetch", item.key)>> ELSE <<>>
           pushes == IF ~conflict /\ HasHook(backend)
                     THEN <<HookCall("push", item.key)>> ELSE <<>>
       IN /\ cloud' = [cloud EXCEPT !.calls = @ \o fetches \o pushes]
          /\ conflicts' = IF conflict THEN RecordConflict(conflicts, item.key, clock)
                          ELSE conflicts
          /\ inflight' = [inflight EXCEPT ![p] =
                IF conflict THEN [run EXCEPT !.nconflicts = @ + 1, !.i = @ + 1]
                ELSE IF out = "True" THEN [run EXCEPT !.pc = "marking", !.lines = pending]
                ELSE IF out = "raise"
                THEN [run EXCEPT !.errors = Append(@, item.key \o ": backend error"),
                                 !.i = @ + 1]
                ELSE IF item.tier = "always_sync"
                THEN [run EXCEPT !.errors = Append(@, "Failed to sync: " \o item.key),
                                 !.i = @ + 1]
                ELSE [run EXCEPT !.i = @ + 1]]
    /\ UNCHANGED << clock, memVars, pending, sync, chronicle, nextId, cache, rebuilt, runs,
                    snapshots, latest, answer, last >>

\* The rewrite in _mark_synced: pending.jsonl is opened for writing and the lines
\* read before, with the entry marked, are written to it.
SyncRewrite(p) ==
    /\ inflight[p].pc = "marking"
    /\ LET run == inflight[p]
       IN /\ pending' = MarkSynced(run.lines, run.items[run.i], clock)
          /\ inflight' = [inflight EXCEPT ![p] =
                            [run EXCEPT !.pc = "syncing", !.synced = @ + 1, !.i = @ + 1,
                                        !.lines = <<>>]]
    /\ UNCHANGED << clock, memVars, conflicts, sync, cloud, chronicle, nextId, cache,
                    rebuilt, runs, snapshots, latest, answer, last >>

\* After the loop: the state update and its save, and the return of the counts;
\* or the KeyError of an entry without a key, which skips the update.
SyncFinish(p) ==
    /\ inflight[p].pc = "syncing"
    /\ inflight[p].i > Len(inflight[p].items)
    /\ LET run == inflight[p]
           left == run.state.pending_count - run.synced
       IN IF run.raises
          THEN /\ last' = Result("sync_to_cloud", p, ToString(run.synced), "raise", "")
               /\ UNCHANGED sync
          ELSE /\ sync' = [run.state EXCEPT
                             !.last_sync = clock,
                             !.pending_count = IF left > 0 THEN left ELSE 0,
                             !.conflict_count = @ + run.nconflicts]
               /\ last' = Result("sync_to_cloud", p, ToString(run.synced), "done", "")
    /\ inflight' = [inflight EXCEPT ![p] = IdleCall]
    /\ UNCHANGED << clock, memVars, pending, conflicts, cloud, chronicle, nextId, cache,
                    rebuilt, runs, snapshots, latest, answer >>

\* ------------------------------------------------------------------ inputs

\* Keys of the governed memory layer: a sensitive key, a technical/ key outside the
\* listed patterns, a multi-record key, and the controller's own two files.
Keys ==
    { "technical/api_keys/k.json", "technical/creds.json",
      "experiential/insights/a.jsonl", GovKey, StateKey }

Contents == {"c1", "c2"}

Deltas == {3, 4, 0 - 6}

\* Event ids a caller can present: any id ever issued, or one never issued.
EventIds == {issued[i].event_id : i \in DOMAIN issued} \cup {"gov_never"}

\* Keys of the sync scenarios: one per tier, technical/ keys inside and outside
\* the never-sync patterns, and the credentials file of configure_cloud.
SyncKeys ==
    { "technical/api_keys/k.json", "technical/local_state/x.json",
      "technical/creds.json", CredsKey,
      "experiential/insights/a.jsonl", "relational/values/v.json" }

SyncContents == {"c1"}

\* Keys of the controller scenarios: the controller's state document and an
\* ordinary multi-record key; the content is a dict with a restraint_level key.
SpiralKeys == {StateKey, "experiential/insights/a.jsonl"}

SpiralContents == {"c2"}

Backends == {"local", "s3"}

Credentials == {<<>>, <<"token">>}

Sessions == {"s1", "s2"}

\* The session argument of get_latest_snapshot: None or a session.
SessionArguments == {<<>>} \cup {<<sid>> : sid \in Sessions}

\* State blobs, by name.
SnapshotStates == {"tasks_a", "tasks_b"}

\* Insight texts: one with no keyword, one with three keywords among words that
\* are too short, not alphabetic, or repeated in another case.
IndexContents == {"X", "Index rebuild is safe, v2 of the INDEX note"}

Domains == {"d1", "d2"}

Intensities == {3, 9}

\* Domains a caller records under: a plain name and a nested name.
QueryDomains == {"d1", "d1/sub"}

\* The domain argument of recall_insights: None or a domain.
DomainArguments == {<<>>} \cup {<<d>> : d \in QueryDomains}

Thresholds == {3, 9, 10}

\* Actions looked up: two spellings of one word, and a word no record holds.
Actions == {"SQLite", "sqlite", "Postgres"}

\* Context filters: none, and a word of one what_failed in another case.
Contexts == {<<>>, <<"VAULT">>}

\* What the recorded learnings say failed: a short text, and a longer one that
\* holds the word of the context filter.
QueryFailures == {"Used SQLite", "Used SQLite for indexing of the whole vault"}

\* Two spellings with one slug, and two long texts that agree on their first 30
\* characters.
Failures ==
    { "Used SQLite", "used sqlite",
      "Used SQLite for indexing of the whole vault",
      "Used SQLite for indexing of the whole store" }

\* Keys of the three synced tiers: always_sync, sync_with_review, default.
InsightKey == "experiential/insights/a.jsonl"
ValuesKey == "relational/values/v.json"
NotesKey == "notes/n.json"
BackendKeys == {InsightKey, ValuesKey, NotesKey}

\* What a backend may do: accept everything and hold nothing (as the shipped
\* hooks), hold a version of the reviewed key, refuse or raise on one key.
BackendBehaviours ==
    { [objects |-> {}, refuses |-> {}, raises |-> {}],
      [objects |-> {ValuesKey}, refuses |-> {}, raises |-> {}],
      [objects |-> {}, refuses |-> {InsightKey}, raises |-> {}],
      [objects |-> {}, refuses |-> {}, raises |-> {InsightKey}],
      [objects |-> {}, refuses |-> {NotesKey}, raises |-> {}],
      [objects |-> {}, refuses |-> {}, raises |-> {ValuesKey}] }

\* The backends that only store: they accept every push.
StoringBehaviours == {b \in BackendBehaviours : b.refuses = {} /\ b.raises = {}}

\* The domain argument of recall_insights on the read-path scenarios: None, a
\* domain that is recorded under, and one that never is.
AbsenceDomains == {<<>>, <<"d1">>, <<"d2">>}

\* A key that leaves the memories directory, and a key that stays in it.
TraversalKey == "../escape.json"
TraversalKeys == {TraversalKey, NotesKey}

\* Paths a memory-tool command may carry.
ToolPaths == {"/memories/../escape.json", "/memories/notes/n.json", "/etc/passwd"}

\* Words looked up: a keyword of the longer insight text in three spellings, a
\* word that text holds only with a comma attached, that word with its comma,
\* and a word no text holds.
SearchWords == {"index", "INDEX", "Index", "safe", "safe,", "vault"}

\* Keys of the counter scenarios: an ordinary key of the default tier, and the
\* key that leads to the router's queue file.
CounterKeys == {NotesKey, PendingFileKey}

\* Keys of the restraint scenarios: a key in a directory of its own and a key
\* directly under memories/, whose directory always exists.
TopKey == "top.json"
RestraintKeys == {NotesKey, TopKey}

\* Protocols switched on and off: one of the defaults and one that is not.
Protocols == {"pause_before_extend", "witness_first"}

\* ----------------------------------------------------------- specification

\* TempleMemoryHandler(vault_root) on an empty vault: the controller creates and
\* saves a fresh spiral; the router finds no sync state.
Init ==
    /\ clock = 1
    /\ st = NewSpiralState(SpiralName(1), None, 0)
    /\ mem = CreateNewSpiralFiles(EmptyFs, NewSpiralState(SpiralName(1), None, 0))
    /\ dirs = {"", "spiral"}
    /\ nextSpiral = 2
    /\ pending = <<>>
    /\ conflicts = <<>>
    /\ sync = InitialSyncState
    /\ cloud = ShippedBackend
    /\ chronicle = EmptyFs
    /\ nextId = 1
    /\ cache = EmptyFs
    /\ rebuilt = NoRebuild
    /\ runs = NoRuns
    /\ inflight = NoCalls
    /\ snapshots = EmptyFs
    /\ latest = None
    /\ answer = NoAnswer
    /\ issued = <<>>
    /\ last = Result("init", "", "", "None", "")

Next ==
    \/ \E key \in Keys, c \in Contents : Create(key, c)
    \/ \E key \in Keys, c \in Contents : Update(key, c)
    \/ \E key \in Keys : Delete(key)
    \/ \E key \in Keys, e \in EventIds : ConfirmDelete(key, e)
    \/ \E d \in Deltas : AdjustRestraint(d)
    \/ Wait

Spec == Init /\ [][Next]_vars

NextSync ==
    \/ \E key \in SyncKeys, c \in SyncContents : Create(key, c)
    \/ \E key \in SyncKeys, c \in SyncContents : Update(key, c)
    \/ \E key \in SyncKeys : QueueForSyncCall(key, "delete", <<>>)
    \/ \E b \in Backends, cr \in Credentials : ConfigureCloud(b, cr)
    \/ SyncToCloud

SpecSync == Init /\ [][NextSync]_vars

\* Controller scenarios: handoffs and restraint changes between governed writes.
NextSpiral ==
    \/ \E key \in SpiralKeys, c \in SpiralContents : Create(key, c)
    \/ \E key \in SpiralKeys, c \in SpiralContents : Update(key, c)
    \/ \E key \in SpiralKeys : Delete(key)
    \/ \E key \in SpiralKeys : ConfirmDelete(key, "gov_never")
    \/ \E d \in Deltas : AdjustRestraint(d)
    \/ InitializeSpiral

SpecSpiral == Init /\ [][NextSpiral]_vars

NextChronicle ==
    \/ \E sid \in Sessions : AppendEvent("event.one", [n |-> 1], sid)
    \/ \E d \in Domains, sid \in Sessions, i \in Intensities : RecordInsight("X", d, sid, i)
    \/ \E w \in Failures, sid \in Sessions : RecordLearning(w, sid)
    \/ \E sid \in Sessions : RecordTransformation("shift", sid, 7)
    \/ NextDay

SpecChronicle == Init /\ [][NextChronicle]_vars

\* Index scenarios: records of several kinds arrive, the index is rebuilt, and
\* its files are removed, in any order.
NextIndex ==
    \/ \E c \in IndexContents : RecordInsight(c, "d1", "s1", 9)
    \/ AppendEvent("event.one", [n |-> 1], "s2")
    \/ RecordLearning("Used SQLite", "s2")
    \/ RebuildCache
    \/ DeleteIndexFiles

SpecIndex == Init /\ [][NextIndex]_vars

\* Query scenarios: insights are recorded and recalled.
NextQuery ==
    \/ \E d \in QueryDomains, i \in Intensities : RecordInsight("X", d, "s1", i)
    \/ \E d \in DomainArguments, m \in Thresholds : RecallInsights(d, m)

SpecQuery == Init /\ [][NextQuery]_vars

\* Snapshot scenarios: snapshots are taken and resumed from.
NextSnapshot ==
    \/ \E sid \in Sessions, state \in SnapshotStates : CreateSnapshot(sid, state)
    \/ \E sid \in SessionArguments : GetLatestSnapshot(sid)
    \/ Wait

SpecSnapshot == Init /\ [][NextSnapshot]_vars

\* Mistake scenarios: learnings are recorded and looked up.
NextMistakes ==
    \/ \E w \in QueryFailures, sid \in Sessions : RecordLearning(w, sid)
    \/ \E a \in Actions, c \in Contexts : CheckMistakes(a, c)

SpecMistakes == Init /\ [][NextMistakes]_vars

\* TempleMemoryHandler(vault_root) on a vault whose _sync/sync_state.json an
\* earlier configure_cloud("s3") wrote: _load_state reads the backend back.
InitConfigured ==
    /\ clock = 1
    /\ st = NewSpiralState(SpiralName(1), None, 0)
    /\ mem = CreateNewSpiralFiles(EmptyFs, NewSpiralState(SpiralName(1), None, 0))
    /\ dirs = {"", "spiral"}
    /\ nextSpiral = 2
    /\ pending = <<>>
    /\ conflicts = <<>>
    /\ sync = [InitialSyncState EXCEPT !.cloud_enabled = TRUE, !.cloud_backend = "s3"]
    /\ cloud = ShippedBackend
    /\ chronicle = EmptyFs
    /\ nextId = 1
    /\ cache = EmptyFs
    /\ rebuilt = NoRebuild
    /\ runs = NoRuns
    /\ inflight = NoCalls
    /\ snapshots = EmptyFs
    /\ latest = None
    /\ answer = NoAnswer
    /\ issued = <<>>
    /\ last = Result("init", "", "", "None", "")

\* Backend scenarios: entries of every synced tier are written, read and synced
\* while the backend behaves as it likes.
NextBackend ==
    \/ \E key \in BackendKeys, c \in SyncContents : Create(key, c)
    \/ \E key \in BackendKeys : Read(key)
    \/ SyncToCloud
    \/ \E b \in BackendBehaviours : BackendBehaves(b)

SpecBackend == InitConfigured /\ [][NextBackend]_vars

\* Read-path scenarios: a few records and snapshots are written, the backend
\* comes to hold a memory, and
\* every read path is asked for things that are there and things that are not.
NextAbsence ==
    \/ clock <= MaxClock /\ RecordInsight("vault wisdom", "d1", "s1", 9)
    \/ clock <= MaxClock /\ RecordTransformation("shift", "s1", 7)
    \/ CreateSnapshot("s1", "tasks_a")
    \/ \E b \in StoringBehaviours : BackendBehaves(b)
    \/ \E d \in AbsenceDomains : RecallInsights(d, 3)
    \/ CheckMistakes("sqlite", <<>>)
    \/ GetValues
    \/ Search("wisdom")
    \/ \E sid \in Sessions : GetSpiralContext(sid)
    \/ \E sid \in SessionArguments : GetLatestSnapshot(sid)
    \/ \E key \in {InsightKey, ValuesKey} : Read(key)
    \/ SearchCache("wisdom")

SpecAbsence == InitConfigured /\ [][NextAbsence]_vars

\* Malformed-line scenarios: insights are recorded, a partition file gets a line
\* that is not JSON, and the index is rebuilt and looked up.
NextMalformed ==
    \/ \E c \in IndexContents, d \in Domains : RecordInsight(c, d, "s1", 9)
    \/ \E f \in DOMAIN chronicle : MalformedLine(f)
    \/ RebuildCache
    \/ DeleteIndexFiles

SpecMalformed == Init /\ [][NextMalformed]_vars

\* Key scenarios: every entry point of the handler is called with a key that
\* holds ".." and with one that does not, directly and through the memory tool.
NextTraversal ==
    \/ \E key \in TraversalKeys, c \in SyncContents : Create(key, c)
    \/ \E key \in TraversalKeys, c \in SyncContents : Update(key, c)
    \/ \E key \in TraversalKeys : Read(key)
    \/ \E key \in TraversalKeys : Delete(key)
    \/ \E key \in TraversalKeys, e \in EventIds : ConfirmDelete(key, e)
    \/ \E path \in ToolPaths, c \in SyncContents : ToolCreate(path, c)

SpecTraversal == Init /\ [][NextTraversal]_vars

\* Rebuild scenarios: the server and the command line rebuild the index of one
\* vault step by step, in any interleaving, while a record arrives and the
\* index is looked up.
NextRebuild ==
    \/ chronicle = EmptyFs /\ RecordInsight("vault wisdom", "d1", "s1", 9)
    \/ \E p \in Procs : RebuildScan(p)
    \/ \E p \in Procs : RebuildOpen(p)
    \/ \E p \in Procs : RebuildDump(p)
    \/ \E p \in Procs : RebuildInterrupted(p)
    \/ GetCacheStats
    \/ SearchCache("wisdom")

SpecRebuild == Init /\ [][NextRebuild]_vars

\* Writer scenarios: the server and the command line each record insights into
\* the partition files of one domain, step by step, in any interleaving.
NextWriters ==
    \/ \E p \in Procs, sid \in Sessions, i \in Intensities :
          RecordInsightOpen(p, "X", "d1", sid, i)
    \/ \E p \in Procs : RecordInsightWrite(p)

SpecWriters == Init /\ [][NextWriters]_vars

\* Lookup scenarios: insights arrive in two partition files, the index is
\* rebuilt, and words are looked up in several spellings.
NextSearch ==
    \/ \E c \in IndexContents, d \in Domains : RecordInsight(c, d, "s1", 9)
    \/ RebuildCache
    \/ \E w \in SearchWords : SearchCache(w)

SpecSearch == Init /\ [][NextSearch]_vars

\* Counter scenarios: one router is configured, fed by the handler and directly,
\* and synced, in any order.
NextCounter ==
    \/ \E key \in CounterKeys :
          Create(key, IF key = PendingFileKey THEN "task" ELSE "c1")
    \/ \E key \in CounterKeys :
          Update(key, IF key = PendingFileKey THEN "task" ELSE "c1")
    \/ QueueForSyncCall(NotesKey, "delete", <<>>)
    \/ ConfigureCloud("s3", <<>>)
    \/ SyncToCloud

SpecCounter == Init /\ [][NextCounter]_vars

\* Restraint scenarios: the restraint level is moved up and down between
\* creates and updates of keys that exist and keys that do not.
NextRestraint ==
    \/ \E key \in RestraintKeys : Create(key, "c1")
    \/ \E key \in RestraintKeys : Update(key, "c1")
    \/ \E d \in Deltas : AdjustRestraint(d)

SpecRestraint == Init /\ [][NextRestraint]_vars

\* Queue scenarios: writes are queued while the server and the command line
\* sync the queue step by step, in any interleaving.
NextQueue ==
    \/ \E op \in {"create", "update"} : QueueForSyncCall(NotesKey, op, <<>>)
    \/ \E p \in Procs : SyncStart(p)
    \/ \E p \in Procs : SyncPush(p)
    \/ \E p \in Procs : SyncRewrite(p)
    \/ \E p \in Procs : SyncFinish(p)

SpecQueue == InitConfigured /\ [][NextQueue]_vars

\* Write-through scenarios: every operation of the controller, the controller
\* constructed again on its directory, and the handler's delete of the
\* controller's log.
NextController ==
    \/ AdjustRestraint(3)
    \/ \E pr \in Protocols : ActivateProtocol(pr)
    \/ \E pr \in Protocols : DeactivateProtocol(pr)
    \/ InitializeSpiral
    \/ Construct
    \/ Delete(GovKey)
    \/ ConfirmDelete(GovKey, "gov_never")

SpecController == Init /\ [][NextController]_vars

\* ------------------------------------------------------------------ claims

\* A step of the behaviour that is a call (every call takes a tick).
Called(op) == clock' # clock /\ last'.op = op

ControllerFiles == {GovKey, StateKey}

\* No file is removed, and no file outside the controller's own two changes.
OrdinaryFilesKept ==
    /\ \A p \in DOMAIN mem : p \in DOMAIN mem'
    /\ \A p \in DOMAIN mem' \ ControllerFiles : p \in DOMAIN mem /\ mem'[p] = mem[p]

\* The step appended exactly one pause event for key to the governance log, and
\* the state document records its id.
OnePauseAppended(key) ==
    /\ FileExists(mem', GovKey)
    /\ Len(mem'[GovKey]) = Len(GovLog) + 1
    /\ SubSeq(mem'[GovKey], 1, Len(GovLog)) = GovLog
    /\ LET e == mem'[GovKey][Len(mem'[GovKey])]
       IN /\ IsEvent(e)
          /\ e.decision = "pause"
          /\ e.context = key
          /\ e.event_id = last'.event_id
    /\ st' = [st EXCEPT !.governance_history = Append(@, last'.event_id),
                        !.last_updated = clock]
    /\ mem'[StateKey] = <<st'>>

\* C1 (as claimed): for every key k, delete(k) removes no memory file and read(k)
\* right after it returns exactly what read(k) returned right before it.
C1_DeleteLeavesEveryReadUnchanged ==
    [][Called("delete") =>
          /\ \A p \in DOMAIN mem : p \in DOMAIN mem'
          /\ read(mem', sync', cloud', last'.key) = read(mem, sync, cloud, last'.key)]_vars

\* C1 (amended): delete(k) removes no file and changes no file other than the
\* controller's own spiral/governance.jsonl and spiral/state.json; it appends one
\* pause event for k, returns a GOVERNANCE_PAUSE token, leaves the sync queue
\* alone, and for every k other than those two files read(k) is unchanged.
C1_DeleteRemovesNothing ==
    [][Called("delete") =>
          /\ OrdinaryFilesKept
          /\ OnePauseAppended(last'.key)
          /\ last'.tag = "GOVERNANCE_PAUSE"
          /\ UNCHANGED << dirs, pending, conflicts, sync >>
          /\ (last'.key \notin ControllerFiles =>
                read(mem', sync', cloud', last'.key) = read(mem, sync, cloud, last'.key))]_vars

\* A delete of an ordinary key whose file exists has just returned.
C1_Witness ==
    /\ last.op = "delete"
    /\ last.key \notin ControllerFiles
    /\ FileExists(mem, last.key)

\* The pause events that earlier delete(key) calls recorded.
DeletePauseIds(key) ==
    { issued[i].event_id : i \in { j \in DOMAIN issued :
          /\ issued[j].decision = "pause"
          /\ issued[j].context = key
          /\ issued[j].reason = "Delete requested - requires confirmation" } }

\* C2: confirm_delete(k, event_id) removes the file of k only when event_id is the
\* id of a pause event that an earlier delete(k) recorded for k.
C2_ConfirmNeedsMatchingPause ==
    [][(/\ Called("confirm_delete")
        /\ last'.key \notin ControllerFiles
        /\ FileExists(mem, last'.key)
        /\ ~FileExists(mem', last'.key))
          => last'.arg \in DeletePauseIds(last'.key)]_vars

Paused(op) == Called(op) /\ last'.tag = "GOVERNANCE_PAUSE"

\* C4 (as claimed): a paused create/update leaves the memory file of k unchanged
\* (read(k) is the same), every other memory file, the queue and the counter too.
C4_PausedWriteLeavesKeyFileUnchanged ==
    [][(Paused("create") \/ Paused("update")) =>
          /\ read(mem', sync', cloud', last'.key) = read(mem, sync, cloud, last'.key)
          /\ \A p \in DOMAIN mem' \ (ControllerFiles \cup {last'.key}) :
                 p \in DOMAIN mem /\ mem'[p] = mem[p]
          /\ UNCHANGED << pending, sync >>]_vars

\* C4 (amended): a paused create/update changes no memory file other than the
\* controller's own spiral/governance.jsonl and spiral/state.json, creates no
\* directory, leaves the pending queue and the router state unchanged, and its
\* only effect is one pause event for k appended to the governance log (with its
\* id recorded in the controller state).
C4_PausedWriteWritesNothing ==
    [][(Paused("create") \/ Paused("update")) =>
          /\ OrdinaryFilesKept
          /\ OnePauseAppended(last'.key)
          /\ UNCHANGED << dirs, pending, conflicts, sync >>]_vars

\* A create of an ordinary key whose file already exists has just been paused.
C4_Witness ==
    /\ last.op = "create"
    /\ last.tag = "GOVERNANCE_PAUSE"
    /\ last.key \notin ControllerFiles
    /\ FileExists(mem, last.key)

\* Keys on which the pure functions of keys are probed.
ProbeKeys ==
    { "technical/api_keys/k.json", "technical/api_keys", "technical/credentials.json",
      "technical/credentials/aws.json", "technical/ssh_configs/id", "technical/ssh",
      "technical/local_state/x.json", "technical/creds.json", CredsKey, "technical",
      "experiential/insights/a.jsonl", "experiential/learnings/l.jsonl",
      "experiential/notes.json", "relational/values/v.json", "relational/other.json",
      "x/technical/api_keys", "notes.json", "", GovKey, StateKey }

ClaimedSensitive(key) ==
    \/ StartsWith(key, "technical/api_keys")
    \/ StartsWith(key, "technical/credentials")
    \/ StartsWith(key, "technical/ssh_configs")

Tiers == {"never_sync", "always_sync", "sync_with_review", "default"}

\* C6: classify_tier returns one of the four tiers for every key; no entry of the
\* pending queue has a never_sync key; queue_for_sync on a never_sync key changes
\* neither the queue nor the router state (the pending counter).
C6_NeverSyncNeverQueued ==
    [][/\ \A key \in ProbeKeys \cup SyncKeys : classify_tier(key) \in Tiers
       /\ \A i \in DOMAIN pending' : classify_tier(pending'[i].key) # "never_sync"
       /\ \A i \in DOMAIN pending' : pending'[i].tier = classify_tier(pending'[i].key)
       /\ ((Called("queue_for_sync") /\ classify_tier(last'.key) = "never_sync")
             => UNCHANGED << pending, sync >>)
       /\ ((Called("queue_for_sync") /\ classify_tier(last'.key) # "never_sync")
             => /\ Len(pending') = Len(pending) + 1
                /\ sync'.pending_count = sync.pending_count + 1)]_vars

\* queue_for_sync on a never_sync key has returned while the queue holds an entry.
C6_Witness ==
    /\ last.op = "queue_for_sync"
    /\ classify_tier(last.key) = "never_sync"
    /\ Len(pending) > 0

\* C7: every key under technical/ that the store holds or has queued classifies as
\* never_sync, and no pending entry has a key under technical/.
C7_TechnicalIsLocalOnly ==
    /\ \A key \in DOMAIN mem :
           StartsWith(key, "technical/") => classify_tier(key) = "never_sync"
    /\ \A i \in DOMAIN pending : ~StartsWith(pending[i].key, "technical/")

\* The lines of a partition file before the step are a prefix of its lines after.
KeepsLines(fs, fs2, path) ==
    /\ path \in DOMAIN fs2
    /\ Len(fs2[path]) >= Len(fs[path])
    /\ SubSeq(fs2[path], 1, Len(fs[path])) = fs[path]

LinesOf(fs, path) == IF path \in DOMAIN fs THEN Len(fs[path]) ELSE 0

ChronicleWrites ==
    {"append_event", "record_insight", "record_learning", "record_transformation"}

\* C8: every line written earlier stays, unchanged and in order; each append_event,
\* record_insight, record_learning or record_transformation call adds exactly one
\* line to exactly one partition file.
C8_ChronicleAppendOnly ==
    [][/\ \A path \in DOMAIN chronicle : KeepsLines(chronicle, chronicle', path)
       /\ ((clock' # clock /\ last'.op \in ChronicleWrites) =>
             \E path \in DOMAIN chronicle' :
                 /\ Len(chronicle'[path]) = LinesOf(chronicle, path) + 1
                 /\ \A other \in DOMAIN chronicle' \ {path} :
                        other \in DOMAIN chronicle /\ chronicle'[other] = chronicle[other])
       /\ ((clock' # clock /\ last'.op \notin ChronicleWrites) => chronicle' = chronicle)]_vars

\* A record has been appended to a partition file that already held one.
C8_Witness ==
    /\ last.op \in ChronicleWrites
    /\ \E path \in DOMAIN chronicle : Len(chronicle[path]) >= 2

\* C9: the governance log is append-only: no operation removes or modifies an
\* event recorded earlier, and a call that records an event appends exactly that
\* one event to the log.
C9_GovernanceLogAppendOnly ==
    [][/\ \A i \in DOMAIN GovLog :
            IsEvent(GovLog[i]) => (i \in DOMAIN GovLog' /\ GovLog'[i] = GovLog[i])
       /\ (Len(issued') = Len(issued) + 1 =>
             /\ Len(GovLog') = Len(GovLog) + 1
             /\ GovLog'[Len(GovLog')] = issued'[Len(issued')])]_vars

\* C10: any two governance events recorded by the controller carry distinct ids.
C10_EventIdsDistinct ==
    \A i, j \in DOMAIN issued : i # j => issued[i].event_id # issued[j].event_id

\* min(1, max(0, x)) in tenths.
Clamp(x) == IF x < MinRestraint THEN MinRestraint
            ELSE IF x > MaxRestraint THEN MaxRestraint ELSE x

\* adjust_restraint(delta) set the level to the clamped sum and appended one
\* adjust_restraint event whose restraint_score is that level.
AdjustClampsAndRecords ==
    \E d \in Deltas :
        /\ last'.arg = ToString(d)
        /\ st'.restraint_level = Clamp(st.restraint_level + d)
        /\ Len(GovLog') = Len(GovLog) + 1
        /\ SubSeq(GovLog', 1, Len(GovLog)) = GovLog
        /\ GovLog'[Len(GovLog')].decision = "adjust_restraint"
        /\ GovLog'[Len(GovLog')].restraint_score = st'.restraint_level

\* C11: restraint_level stays within [0,1] in every reachable state, and
\* adjust_restraint(delta, reason) sets it to min(1, max(0, old + delta)) and
\* appends one adjust_restraint governance event whose restraint_score is the new
\* clamped level.
C11_RestraintStaysInUnitInterval ==
    [][ /\ st'.restraint_level \in MinRestraint..MaxRestraint
        /\ Called("adjust_restraint") => AdjustClampsAndRecords ]_vars

\* A document written by the controller's _save_state (not a memory entry that
\* create or update put in its place).
IsControllerState(doc) ==
    {"current_phase", "restraint_level", "protocols_active"} \subseteq DOMAIN doc

\* C12: initialize_spiral on a directory that holds a persisted controller state
\* produces a state with a new spiral_id, inherited_from equal to the
\* predecessor's spiral_id, restraint_level and protocols_active equal to the
\* persisted values, and appends exactly one inherit event naming the predecessor.
C12_HandoffInheritsPersistedState ==
    [][ ( /\ Called("initialize_spiral")
          /\ FileExists(mem, StateKey)
          /\ IsControllerState(mem[StateKey][1]) )
        => LET predecessor == mem[StateKey][1]
               event == GovLog'[Len(GovLog')]
           IN /\ st'.spiral_id # predecessor.spiral_id
              /\ st'.inherited_from = predecessor.spiral_id
              /\ st'.restraint_level = predecessor.restraint_level
              /\ st'.protocols_active = predecessor.protocols_active
              /\ mem'[StateKey][1] = st'
              /\ Len(GovLog') = Len(GovLog) + 1
              /\ SubSeq(GovLog', 1, Len(GovLog)) = GovLog
              /\ event.decision = "inherit"
              /\ event.spiral_id = st'.spiral_id
              /\ event.reason = "New instance inheriting from " \o predecessor.spiral_id
      ]_vars

\* A handoff has taken over a restraint level that an adjustment had moved off
\* the default.
C12_Witness ==
    /\ last.op = "initialize_spiral"
    /\ st.inherited_from = SpiralName(1)
    /\ st.spiral_id = SpiralName(2)
    /\ st.restraint_level = PauseThreshold
    /\ Len(GovLog) = 2

\* C13: after a handoff has completed the phase is active again, so no
\* controller is in inheriting or bootstrapping while it serves a create, update
\* or delete request.
C13_ServesRequestsOnlyWhenActive ==
    [][ (Called("create") \/ Called("update") \/ Called("delete"))
        => st.current_phase = "active" ]_vars

\* The number of lines in the given files of fs.
RECURSIVE SumLines(_, _)
SumLines(fs, files) ==
    IF files = {} THEN 0
    ELSE LET f == CHOOSE x \in files : TRUE
         IN Len(fs[f]) + SumLines(fs, files \ {f})

\* C14: index rebuild is an idempotent, deterministic function of the store: a
\* rebuild of the store that the previous rebuild scanned returns the same five
\* statistics, whatever the index files held in between (removed, or left over
\* from that or an earlier rebuild), and the statistics are those of the store.
C14_RebuildDependsOnStoreOnly ==
    [][ (last'.op = "rebuild_cache" /\ rebuilt'.done)
        => /\ (rebuilt.done /\ rebuilt.store = chronicle)
                => rebuilt'.stats = rebuilt.stats
           /\ rebuilt'.stats.files_scanned = Cardinality(DOMAIN chronicle)
           /\ rebuilt'.stats.total_entries = SumLines(chronicle, DOMAIN chronicle)
      ]_vars

\* The store holds keywords, sessions and domains, its index files were removed
\* after a rebuild, and it has been rebuilt again from nothing.
C14_Witness ==
    /\ last.op = "rebuild_cache"
    /\ rebuilt.done /\ rebuilt.repeat /\ rebuilt.from_scratch
    /\ rebuilt.store = chronicle
    /\ rebuilt.stats.unique_keywords = 3
    /\ rebuilt.stats.sessions_indexed = 2
    /\ rebuilt.stats.domains_indexed = 1

\* A step that is a call of the query op.
Asked(op) == answer' # answer /\ answer'.op = op

\* Every insight record in the store (each was written by record_insight).
Insights(store) ==
    {e \in EntriesOf(store, DOMAIN store) : Get(e, "type", "") = "insight"}

\* C15: every insight written by record_insight(content=X, domain=d, intensity=i)
\* is returned, with its content, by every later recall_insights(d, m) with
\* m <= i and by recall_insights(None, m); and when the store holds no other
\* insight in d, recall_insights(d, i) is exactly that one record.
C15_RecordedInsightIsRecalled ==
    [][ Asked("recall_insights")
        => \A e \in Insights(chronicle) :
             /\ (answer'.min <= e.intensity
                 /\ (answer'.domain = <<>> \/ answer'.domain = <<e.domain>>))
                  => e \in answer'.result
             /\ (/\ answer'.domain = <<e.domain>>
                 /\ answer'.min = e.intensity
                 /\ \A o \in Insights(chronicle) : o.domain = e.domain => o = e)
                  => answer'.result = {e}
      ]_vars

\* C16: on a fixed store and for any domain argument, t1 < t2 implies that
\* every record recall_insights(domain, t2) returns is also returned by
\* recall_insights(domain, t1), and every returned record has an intensity of at
\* least the threshold used.
C16_IntensityFilterMonotone ==
    [][ Asked("recall_insights")
        => /\ \A e \in answer'.result : e.intensity >= answer'.min
           /\ \A t1 \in Thresholds :
                t1 < answer'.min
                  => answer'.result \subseteq recall_insights(chronicle, answer'.domain, t1)
      ]_vars

\* A recall at the higher threshold returned a record and left out one that the
\* lower thresholds return.
C16_Witness ==
    /\ answer.op = "recall_insights"
    /\ answer.min = 9
    /\ answer.result # {}
    /\ answer.result = recall_insights(chronicle, answer.domain, answer.min)
    /\ recall_insights(chronicle, answer.domain, 3) # answer.result

\* Two characters that are the same, or the two cases of one letter.
LetterPairs ==
    {<<SubSeq(LowerLetters, j, j), SubSeq(UpperLetters, j, j)>> : j \in 1..Len(LowerLetters)}

SameLetter(a, b) == a = b \/ <<a, b>> \in LetterPairs \/ <<b, a>> \in LetterPairs

\* text contains word, ignoring case.
ContainsIgnoringCase(text, word) ==
    \/ word = ""
    \/ \E i \in 1..(Len(text) - Len(word) + 1) :
         \A k \in 1..Len(word) :
            SameLetter(SubSeq(text, i + k - 1, i + k - 1), SubSeq(word, k, k))

\* Every learning record in the store (each was written by record_learning).
Learnings(store) ==
    {e \in EntriesOf(store, DOMAIN store) : Get(e, "type", "") = "learning"}

\* C17: check_mistakes(action, context) returns exactly the learning records
\* whose what_failed contains action ignoring case and, when context is given,
\* whose serialized form also contains context ignoring case; the result is the
\* same for any change of letter case of action (and empty when none matches).
C17_CheckMistakesMatchesIgnoringCase ==
    [][ Asked("check_mistakes")
        => /\ answer'.result =
                { e \in Learnings(chronicle) :
                    /\ ContainsIgnoringCase(e.what_failed, answer'.action)
                    /\ answer'.context # <<>>
                         => ContainsIgnoringCase(Dumps(e), answer'.context[1]) }
           /\ \A a \in Actions :
                (Len(a) = Len(answer'.action) /\ ContainsIgnoringCase(a, answer'.action))
                  => check_mistakes(chronicle, a, answer'.context) = answer'.result
      ]_vars

\* Two learnings are stored; a lookup in another case with a context filter
\* returned one of them.
C17_Witness ==
    /\ answer.op = "check_mistakes"
    /\ answer.action = "sqlite"
    /\ answer.context = <<"VAULT">>
    /\ Cardinality(Learnings(chronicle)) = 2
    /\ Cardinality(answer.result) = 1
    /\ answer.result \subseteq Learnings(chronicle)

\* C18: create_snapshot(s, state) returns a snapshot id, and a following
\* get_latest_snapshot(s) returns a snapshot whose session_id is s and whose
\* state is the state passed in (so, after several snapshots of one session, the
\* one created last).
C18_SnapshotResumeRoundTrip ==
    [][ Called("create_snapshot")
        => LET got == get_latest_snapshot(snapshots', latest', <<last'.key>>)
           IN /\ last'.tag = "id"
              /\ got.outcome = "snapshot"
              /\ got.doc[1].session_id = last'.key
              /\ got.doc[1].state = last'.arg
      ]_vars

\* C19: after create_snapshot returns, the latest marker exists and points to
\* the snapshot just written, so get_latest_snapshot() returns it; once a first
\* snapshot exists the marker is never absent or dangling.
C19_LatestMarkerFollowsSnapshots ==
    [][ /\ Called("create_snapshot")
           => /\ latest' = SnapFile(last'.key, clock)
              /\ get_latest_snapshot(snapshots', latest', <<>>).outcome = "snapshot"
        /\ DOMAIN snapshots' # {} => (latest' # None /\ latest' \in DOMAIN snapshots')
      ]_vars

\* C20: when cloud_enabled is false, sync_to_cloud returns status disabled and
\* changes nothing: the pending queue and every entry's status, the pending and
\* conflict counters, last_sync and the conflict log are all unchanged.
C20_DisabledSyncChangesNothing ==
    [][ (Called("sync_to_cloud") /\ ~sync.cloud_enabled)
        => /\ last'.tag = "disabled"
           /\ pending' = pending
           /\ conflicts' = conflicts
           /\ sync' = sync
           /\ mem' = mem
      ]_vars

\* A disabled sync_to_cloud has run over a queue that holds a pending entry.
C20_Witness ==
    /\ last.op = "sync_to_cloud"
    /\ last.tag = "disabled"
    /\ ~sync.cloud_enabled
    /\ sync.pending_count > 0
    /\ \E i \in DOMAIN pending : pending[i].status = "pending"

\* The queue fields of an entry that marking it synced leaves alone.
SameQueueEntry(a, b) ==
    /\ a.key = b.key
    /\ a.operation = b.operation
    /\ a.tier = b.tier
    /\ a.queued_at = b.queued_at
    /\ a.content_hash = b.content_hash

NewCalls == SubSeq(cloud'.calls, Len(cloud.calls) + 1, Len(cloud'.calls))

\* The conflicts recorded by the step.
NewConflicts == SubSeq(conflicts', Len(conflicts) + 1, Len(conflicts'))

\* C22: for a pending sync_with_review entry, sync_to_cloud first asks the backend
\* for a remote version of the key; if one exists it records a conflict, does not
\* push and leaves the entry pending; only when none exists does it push and, on
\* success, mark the entry synced.
C22_ReviewedEntryConflictsOnRemoteVersion ==
    [][(Called("sync_to_cloud") /\ sync.cloud_enabled) =>
          \A i \in DOMAIN pending :
             (pending[i].tier = "sync_with_review" /\ pending[i].status = "pending") =>
                LET key == pending[i].key
                    IsPush(n) == NewCalls[n] = HookCall("push", key)
                    IsFetch(n) == NewCalls[n] = HookCall("fetch", key)
                IN /\ \E n \in DOMAIN NewCalls :
                         IsFetch(n) /\ \A m \in 1..(n - 1) : ~IsPush(m)
                   /\ IF key \in cloud.objects
                      THEN /\ \A n \in DOMAIN NewCalls : ~IsPush(n)
                           /\ pending'[i] = pending[i]
                           /\ \E n \in DOMAIN NewConflicts : NewConflicts[n].key = key
                      ELSE /\ \E n \in DOMAIN NewCalls : IsPush(n)
                           /\ PushHook(cloud, key) = "True" =>
                                 pending'[i].status = "synced"]_vars

\* The keys pushed by the step, in the order of the pushes.
PushedKeys ==
    LET pushes == SelectSeq(NewCalls, LAMBDA c : c.hook = "push")
    IN [n \in DOMAIN pushes |-> pushes[n].key]

\* The keys of the entries that are pending before the step, in queue order.
PendingKeys ==
    LET items == GetPending(pending)
    IN [n \in DOMAIN items |-> items[n].key]

\* C23: a backend failure on one queued key does not abort sync_to_cloud: every
\* entry that is pending when the call starts is pushed in that call, in queue
\* order, whatever the pushes before it answered (success, refusal, exception).
C23_EveryPendingEntryIsAttempted ==
    [][(Called("sync_to_cloud") /\ sync.cloud_enabled) =>
          /\ PushedKeys = PendingKeys
          /\ last'.tag = "done"
          /\ sync'.last_sync = clock]_vars

\* A sync whose first push raised and whose second push, made all the same,
\* succeeded.
C23_Witness ==
    /\ last.op = "sync_to_cloud"
    /\ Len(pending) = 2
    /\ pending[1].key \in cloud.raises
    /\ pending[1].status = "pending"
    /\ pending[2].status = "synced"
    /\ Len(cloud.calls) = 2
    /\ cloud.calls[1] = HookCall("push", pending[1].key)
    /\ cloud.calls[2] = HookCall("push", pending[2].key)

\* The queue positions the step marked synced.
NewlySynced ==
    { i \in DOMAIN pending :
        pending[i].status = "pending" /\ pending'[i].status = "synced" }

\* C24: sync_to_cloud marks nothing half-synced: an entry is marked synced only if
\* its own push succeeded in that call; an entry whose push was refused or raised
\* keeps the status pending and is counted neither in the call's synced count nor
\* in the decrement of the pending counter; and every entry still pending, a
\* failed one included, is pushed again by the next sync_to_cloud.
C24_OnlySuccessfulPushMarksSynced ==
    [][(Called("sync_to_cloud") /\ sync.cloud_enabled) =>
          /\ Len(pending') = Len(pending)
          /\ \A i \in DOMAIN pending :
                /\ i \in NewlySynced =>
                      /\ PushToCloud(cloud, sync.cloud_backend, pending[i].key) = "True"
                      /\ \E n \in DOMAIN PushedKeys : PushedKeys[n] = pending[i].key
                /\ (/\ pending[i].status = "pending"
                    /\ PushToCloud(cloud, sync.cloud_backend, pending[i].key) # "True") =>
                      /\ pending'[i] = pending[i]
                      /\ \E n \in DOMAIN PushedKeys : PushedKeys[n] = pending[i].key
          /\ last'.arg = ToString(Cardinality(NewlySynced))
          /\ sync'.pending_count =
                IF sync.pending_count > Cardinality(NewlySynced)
                THEN sync.pending_count - Cardinality(NewlySynced)
                ELSE 0
          /\ sync'.conflict_count = sync.conflict_count + Len(NewConflicts)]_vars

\* An entry whose push was refused by one sync, stayed pending, was pushed again
\* by the next sync and only then marked synced.
C24_Witness ==
    /\ last.op = "sync_to_cloud"
    /\ Len(pending) = 1
    /\ pending[1].status = "synced"
    /\ pending[1].synced_at = sync.last_sync
    /\ pending[1].queued_at + 1 < pending[1].synced_at
    /\ sync.pending_count = 0
    /\ cloud.calls = << HookCall("push", pending[1].key), HookCall("push", pending[1].key) >>

\* No file of the given directory tree exists under any path that starts with
\* the prefix.
NoFileUnder(fs, prefix) == \A f \in DOMAIN fs : ~StartsWith(f, prefix)

\* The step changed no file, no directory and no link of the vault.
NoFileChanged ==
    UNCHANGED << mem, dirs, chronicle, cache, snapshots, latest, pending, conflicts, sync >>

\* C25: absence is never an error on a read path: where the target does not exist
\* (no file for it in the vault and, for a memory key, no version in the backend),
\* recall_insights, check_mistakes, get_values and search return an empty list,
\* get_spiral_context returns empty builds_on and lineage_chain,
\* get_latest_snapshot returns None with and without a session, read(k) returns
\* None and search_cache returns an empty list; none of them raises, and none of
\* them creates or changes any file.
C25_AbsenceIsEmptyNotAnError ==
    [][/\ (/\ Asked("recall_insights")
           /\ NoFileUnder(chronicle,
                 IF answer'.domain = <<>> THEN "chronicle/insights/"
                 ELSE "chronicle/insights/" \o answer'.domain[1] \o "/"))
          => (answer'.result = {} /\ NoFileChanged)
       /\ (Asked("check_mistakes") /\ NoFileUnder(chronicle, "chronicle/learnings/mistakes/"))
          => (answer'.result = {} /\ NoFileChanged)
       /\ (Asked("get_values") /\ NoFileUnder(chronicle, "chronicle/values/principles/"))
          => (answer'.result = {} /\ NoFileChanged)
       /\ (Asked("search") /\ NoFileUnder(chronicle, "chronicle/"))
          => (answer'.result = {} /\ NoFileChanged)
       /\ (/\ Asked("get_spiral_context")
           /\ \A f \in DOMAIN chronicle :
                 StartsWith(f, "chronicle/lineage/") => ~Contains(f, answer'.session))
          => /\ answer'.result.builds_on = {}
             /\ answer'.result.lineage_chain = <<>>
             /\ NoFileChanged
       /\ (/\ Asked("get_latest_snapshot")
           /\ IF answer'.session = <<>> THEN latest = None
              ELSE NoFileUnder(snapshots, "snapshots/" \o answer'.session[1] \o "/"))
          => (answer'.result = [outcome |-> "None", doc |-> <<>>] /\ NoFileChanged)
       /\ (/\ Called("read")
           /\ ~FileExists(mem, last'.key)
           /\ last'.key \notin cloud.objects)
          => (last'.tag = "None" /\ NoFileChanged)
       /\ (Asked("search_cache") /\ DOMAIN cache = {})
          => (answer'.result = [outcome |-> "list", files |-> {}] /\ NoFileChanged)
      ]_vars

\* On a vault that holds insights of one domain, with a backend configured,
\* recall_insights was asked for a domain nothing is recorded under and
\* answered with an empty list.
C25_Witness ==
    /\ answer.op = "recall_insights"
    /\ answer.domain = <<"d2">>
    /\ answer.result = {}
    /\ ~NoFileUnder(chronicle, "chronicle/insights/d1/")
    /\ sync.cloud_enabled

\* The well-formed records of the store, as (file, line number) positions.
WellFormed ==
    { q \in UNION { {<<f, i>> : i \in DOMAIN chronicle[f]} : f \in DOMAIN chronicle } :
        ~IsMalformed(chronicle[q[1]][q[2]]) }

\* C26: a malformed (non-JSON) line is not fatal to rebuild_cache: the rebuild
\* skips it, still indexes every well-formed record, writes the three index
\* documents and returns its statistics.
C26_MalformedLineDoesNotStopRebuild ==
    (last.op = "rebuild_cache" /\ WellFormed # {}) =>
       /\ last.tag = "stats"
       /\ DOMAIN cache = {"inverted_index.json", "session_map.json", "domain_map.json"}
       /\ rebuilt.done
       /\ rebuilt.stats.total_entries >= Cardinality(WellFormed)
       /\ \A q \in WellFormed :
             LET e == chronicle[q[1]][q[2]]
             IN /\ e.session_id \in DOMAIN cache["session_map.json"][1]
                /\ q[1] \in cache["session_map.json"][1][e.session_id]
                /\ \A w \in extract_keywords(e.content) :
                      /\ w \in DOMAIN cache["inverted_index.json"][1]
                      /\ q[1] \in cache["inverted_index.json"][1][w].files

\* The entry points of the Mutation Layer.
MutationOps == {"create", "update", "read", "delete", "confirm_delete"}

\* C27: a key with a path-traversal component ("..") is rejected by every entry
\* point of the Mutation Layer (create, update, read, delete, confirm_delete)
\* before any I/O: the call reports a validation error, no file is written or
\* removed, no governance event is recorded and nothing is queued.
C27_TraversalKeyRejectedBeforeIO ==
    [][(\E op \in MutationOps : Called(op)) /\ Contains(last'.key, "..") =>
          /\ last'.tag = "ValidationError"
          /\ UNCHANGED << mem, dirs, st, issued, pending, conflicts, sync, cloud >>]_vars

\* C28: the backend is pushed to and fetched from only by an explicitly invoked
\* sync: no read(k), create or update calls a backend hook, in any state, the
\* state where a backend is enabled and k has no local file included.
C28_OnlySyncCallsTheBackend ==
    [][(Called("read") \/ Called("create") \/ Called("update")) =>
          cloud'.calls = cloud.calls]_vars

\* The rebuild_cache executions in progress.
InProgress == {p \in Procs : runs[p].pc # "idle"}

\* The three index documents exist and all come from one scan, of the empty
\* store or of the store as it is now (the store of these scenarios changes once).
CacheFromOneScan ==
    \E s \in {EmptyFs, chronicle} :
       \A i \in DOMAIN WriteOrder :
          /\ WriteOrder[i] \in DOMAIN cache
          /\ cache[WriteOrder[i]] = << IndexDocs(s, EmptyFs)[WriteOrder[i]] >>

\* C29: index rebuild is single-flight: two rebuild_cache executions on one store
\* are never in progress together, so that once a rebuild has returned and none
\* is running the three index documents come from one complete scan.
C29_RebuildIsSingleFlight ==
    /\ Cardinality(InProgress) <= 1
    /\ (InProgress = {} /\ last.op = "rebuild_cache" /\ last.tag = "stats")
          => CacheFromOneScan

\* C30: the three index documents are replaced atomically: a get_cache_stats or
\* search_cache made during a rebuild or after an interrupted one never sees a
\* partial index (a document missing, truncated or from another scan), neither
\* of them raises, and get_cache_stats answers no_cache or cached.
C30_IndexReplacedAtomically ==
    [][(Asked("get_cache_stats") \/ Asked("search_cache")) =>
          /\ answer'.result.outcome # "raise"
          /\ Asked("get_cache_stats") => answer'.result.status \in {"no_cache", "cached"}
          /\ DOMAIN cache = {} \/ CacheFromOneScan]_vars

\* The call of this step added exactly one entry to the end of the pending queue:
\* a pending entry for key that carries the operation name.
QueuedOne(key, operation) ==
    /\ Len(pending') = Len(pending) + 1
    /\ SubSeq(pending', 1, Len(pending)) = pending
    /\ pending'[Len(pending')].key = key
    /\ pending'[Len(pending')].operation = operation
    /\ pending'[Len(pending')].status = "pending"

\* C31: every mutation that proceeds past governance on a key whose tier is not
\* never_sync is handed to the router: a create or update that is not paused and
\* wrote its entry, and a confirmed delete that removed the key, each add exactly
\* one pending entry for the key with the operation name (create, update, delete);
\* a call that paused, raised or removed nothing adds no entry.
C31_ProceedingMutationIsQueuedOnce ==
    [][/\ (/\ (Called("create") \/ Called("update"))
           /\ last'.tag = "memory"
           /\ classify_tier(last'.key) # "never_sync")
          => QueuedOne(last'.key, last'.op)
       /\ (/\ Called("confirm_delete")
           /\ last'.tag = "True"
           /\ classify_tier(last'.key) # "never_sync")
          => QueuedOne(last'.key, "delete")
       /\ (/\ (Called("create") \/ Called("update") \/ Called("confirm_delete"))
           /\ last'.tag \notin {"memory", "True"})
          => pending' = pending
      ]_vars

\* The records some process has built and not yet written.
Unwritten == {inflight[p].line : p \in {q \in Procs : inflight[q].pc = "appending"}}

\* The positions (file, line number) of the store that hold record r.
PositionsOf(r) ==
    UNION { {<<f, i>> : i \in {j \in DOMAIN chronicle[f] : chronicle[f][j] = r}} :
            f \in DOMAIN chronicle }

\* C32: appends are safe under concurrent writers: in every interleaving of the
\* appends of two processes to one partition file, no step removes or alters a
\* line written earlier, each write puts its record into the file as one whole
\* line, and once both are done the file holds both records.
C32_ConcurrentAppendsKeepEveryRecord ==
    [][/\ \A path \in DOMAIN chronicle : KeepsLines(chronicle, chronicle', path)
       /\ \A p \in Procs :
             (inflight[p].pc = "appending" /\ inflight'[p].pc = "idle") =>
                LET path == inflight[p].fd.path
                IN /\ Len(chronicle'[path]) = Len(chronicle[path]) + 1
                   /\ chronicle'[path][Len(chronicle'[path])] = inflight[p].line
       /\ (Unwritten' = {} =>
             \A n \in 1..(nextId' - 1) :
                \E f \in DOMAIN chronicle' : \E i \in DOMAIN chronicle'[f] :
                   /\ chronicle'[f][i].insight_id = "ins_" \o FreshId(n)
                   /\ \A j \in DOMAIN chronicle'[f] :
                         chronicle'[f][j].insight_id = "ins_" \o FreshId(n) => j = i)
      ]_vars

\* Two processes had the same partition file open at once: the record that was
\* built later reached the file first, and both records are in it.
C32_Witness ==
    /\ Unwritten = {}
    /\ \E f \in DOMAIN chronicle :
          /\ Len(chronicle[f]) = 2
          /\ chronicle[f][1].timestamp > chronicle[f][2].timestamp

\* The index of the first ":" of s at or after i (Len(s) + 1 when there is none).
RECURSIVE FindColon(_, _)
FindColon(s, i) ==
    IF i > Len(s) THEN i
    ELSE IF SubSeq(s, i, i) = ":" THEN i
    ELSE FindColon(s, i + 1)

\* What a reader of a token takes for the event id: the field between the marker
\* and the next colon.
TokenEventId(token) ==
    LET start == Len("GOVERNANCE_PAUSE:") + 1
    IN SubSeq(token, start, FindColon(token, start) - 1)

\* C33: every pause token returned by create, update or delete has the form
\* GOVERNANCE_PAUSE:<event_id>:..., and <event_id> is the id of an event of the
\* governance log, as it is when the call returns, whose decision is pause and
\* whose context is the requested key.
C33_PauseTokenNamesLoggedEvent ==
    [][((Called("create") \/ Called("update") \/ Called("delete"))
          /\ last'.tag = "GOVERNANCE_PAUSE") =>
         LET token == PauseToken(last'.op, last'.event_id, last'.key)
         IN /\ StartsWith(token, "GOVERNANCE_PAUSE:")
            /\ FindColon(token, Len("GOVERNANCE_PAUSE:") + 1) <= Len(token)
            /\ FileExists(mem', GovKey)
            /\ \E i \in DOMAIN mem'[GovKey] :
                  /\ IsEvent(mem'[GovKey][i])
                  /\ mem'[GovKey][i].event_id = TokenEventId(token)
                  /\ mem'[GovKey][i].decision = "pause"
                  /\ mem'[GovKey][i].context = last'.key
      ]_vars

\* An update of a sensitive key was paused, after a delete had been confirmed:
\* the event the token names is in the log, with the key as its context.
C33_Witness ==
    /\ last.op = "update"
    /\ last.tag = "GOVERNANCE_PAUSE"
    /\ \E i \in DOMAIN issued : issued[i].decision = "proceed"
    /\ \E i \in DOMAIN GovLog :
          /\ IsEvent(GovLog[i])
          /\ GovLog[i].event_id = TokenEventId(PauseToken(last.op, last.event_id, last.key))
          /\ GovLog[i].context = last.key

\* entry is the content named c as the handler stores it at tick t: the content's
\* own keys and values, with the timestamp of the call and the controller's
\* spiral id added.
IsStoredContent(entry, c, t) ==
    /\ DOMAIN entry = DOMAIN ContentDict(c) \cup {"timestamp", "spiral_id"}
    /\ \A k \in DOMAIN ContentDict(c) : entry[k] = ContentDict(c)[k]
    /\ entry.timestamp = t
    /\ entry.spiral_id = st.spiral_id

\* C34: what a proceeding create or update writes depends on the key kind only:
\* on a .jsonl key it appends one line and keeps every earlier line, so read(k)
\* is then the old list followed by the new entry; on any other key it replaces
\* the document, so read(k) is then exactly the new content with timestamp and
\* spiral id added, whatever was stored before.
C34_AppendOrReplaceByKeyKind ==
    [][((Called("create") \/ Called("update")) /\ last'.tag = "memory") =>
         LET key == last'.key
             old == IF FileExists(mem, key) THEN mem[key] ELSE <<>>
             now == read(mem', sync', cloud', key)
         IN /\ now.found
            /\ IF IsJsonl(key)
               THEN /\ Len(now.value) = Len(old) + 1
                    /\ SubSeq(now.value, 1, Len(old)) = old
                    /\ IsStoredContent(now.value[Len(now.value)], last'.arg, clock)
               ELSE /\ Len(now.value) = 1
                    /\ IsStoredContent(now.value[1], last'.arg, clock)
      ]_vars

\* An update has just appended a third line to a multi-record key whose first
\* line holds another content.
C34_Witness ==
    /\ last.op = "update"
    /\ last.tag = "memory"
    /\ last.key = InsightKey
    /\ IsJsonl(last.key)
    /\ Len(mem[last.key]) >= 3
    /\ mem[last.key][1].content # mem[last.key][3].content

IsLetter(ch) == \E pr \in LetterPairs : ch = pr[1] \/ ch = pr[2]

\* text holds word, in any letter case, as a whole blank-separated token.
HoldsToken(text, word) ==
    \E a \in 1..(Len(text) - Len(word) + 1) :
       /\ \A k \in 1..Len(word) :
             SameLetter(SubSeq(text, a + k - 1, a + k - 1), SubSeq(word, k, k))
       /\ (a = 1 \/ SubSeq(text, a - 1, a - 1) = " ")
       /\ (a + Len(word) - 1 = Len(text)
             \/ SubSeq(text, a + Len(word), a + Len(word)) = " ")

\* The partition files of store that hold a record whose content field holds
\* word as an alphabetic token of four letters or more.
FilesHolding(store, word) ==
    { f \in DOMAIN store :
        /\ Len(word) >= 4
        /\ \A k \in 1..Len(word) : IsLetter(SubSeq(word, k, k))
        /\ \E i \in DOMAIN store[f] :
              /\ "content" \in DOMAIN store[f][i]
              /\ HoldsToken(store[f][i].content, word) }

\* C35: after a rebuild_cache, search_cache(w) returns exactly the partition
\* files, of the store as the rebuild scanned it, that hold a record whose content
\* has w as a lower-cased alphabetic token of length >= 4, in any letter case of
\* w; a record appended after the rebuild changes no result until the next
\* rebuild, which scans the store as it is then.
C35_SearchCacheMatchesLastRebuild ==
    [][/\ (Asked("search_cache") /\ rebuilt.done) =>
             answer'.result = [ outcome |-> "list",
                                files |-> FilesHolding(rebuilt.store, answer'.keyword) ]
       /\ (rebuilt' # rebuilt) => (rebuilt'.done /\ rebuilt'.store = chronicle)
      ]_vars

\* After a rebuild, one more insight with the keyword went into another file;
\* the keyword was looked up in capitals and the file of the rebuild was
\* returned, the newer one not.
C35_Witness ==
    /\ answer.op = "search_cache"
    /\ answer.keyword = "INDEX"
    /\ answer.result.files # {}
    /\ rebuilt.done
    /\ FilesHolding(chronicle, "index") \ answer.result.files # {}

\* What the sync_to_cloud call of this step returned: the loop's counts and its
\* errors list, on the queue and the backend as the call found them.
SyncResult ==
    SyncLoop(GetPending(pending), 1,
             [ pending |-> pending, conflicts |-> conflicts, cloud |-> cloud,
               synced |-> 0, nconflicts |-> 0, skipped |-> 0, errors |-> <<>> ],
             sync.cloud_backend, clock)

\* C36: every pending entry whose push fails in a sync_to_cloud call is in that
\* call's errors list with its key, whatever its tier and whether the backend
\* returned false or raised; every entry processed is counted in exactly one of
\* synced, conflicts, skipped and errors.
C36_EveryFailedPushIsReported ==
    [][(Called("sync_to_cloud") /\ last'.tag = "done") =>
         LET items == GetPending(pending)
         IN /\ \A i \in DOMAIN items :
                  PushToCloud(cloud, sync.cloud_backend, items[i].key) # "True" =>
                     \E j \in DOMAIN SyncResult.errors :
                        Contains(SyncResult.errors[j], items[i].key)
            /\ SyncResult.synced + SyncResult.nconflicts + SyncResult.skipped
                  + Len(SyncResult.errors) = Len(items)
      ]_vars

\* C37: for one router instance, after any sequence of queue_for_sync, create,
\* update, configure_cloud and sync_to_cloud calls, the persisted pending_count
\* equals the number of queue entries whose status is pending.
C37_PendingCountMatchesQueue ==
    sync.pending_count = Len(GetPending(pending))

\* C38: while restraint_level is above 0.8 no create or update brings a memory
\* key into existence: after the call the only files that were not there before
\* it are the controller's own log and state, and the requested key, when it did
\* not exist, still does not.
C38_HighRestraintCreatesNoKey ==
    [][((Called("create") \/ Called("update")) /\ st.restraint_level > PauseThreshold) =>
          /\ DOMAIN mem' \ DOMAIN mem \subseteq ControllerFiles
          /\ (~FileExists(mem, last'.key) => ~FileExists(mem', last'.key))
      ]_vars

\* C39: the pending queue loses no entry under concurrency: whatever a
\* queue_for_sync of one process interleaves with in a sync_to_cloud of another,
\* no step removes an entry from the queue file, and an entry is recorded as
\* synced only by the step that marks it after its push.
C39_QueueLosesNoEntry ==
    [][/\ Len(pending') >= Len(pending)
       /\ \A i \in DOMAIN pending :
             /\ SameQueueEntry(pending'[i], pending[i])
             /\ (pending[i].status = "pending" /\ pending'[i].status = "synced") =>
                   \E p \in Procs :
                      /\ inflight[p].pc = "marking"
                      /\ SameQueueEntry(inflight[p].items[inflight[p].i], pending[i])
      ]_vars

\* The state fields the controller persists and a new controller resumes.
ResumedFields ==
    {"spiral_id", "restraint_level", "protocols_active", "inherited_from",
     "governance_history"}

\* The last call was an operation of the controller and nothing else: its
\* construction, an adjustment, a protocol switch, a handoff, or a pause, which
\* is one record_governance_event.
AfterControllerOperation ==
    \/ last.op \in {"init", "construct", "adjust_restraint", "activate_protocol",
                    "deactivate_protocol", "initialize_spiral"}
    \/ last.tag = "GOVERNANCE_PAUSE"

\* C40: the controller state is written through: after every completed operation
\* of the controller, state.json agrees with the in-memory state in spiral_id,
\* restraint_level, protocols_active, inherited_from and governance_history,
\* every id in governance_history is the id of an event in the governance log,
\* and a controller constructed now on the directory resumes these fields.
C40_ControllerStateWrittenThrough ==
    AfterControllerOperation =>
       /\ FileExists(mem, StateKey)
       /\ \A f \in ResumedFields :
             /\ f \in DOMAIN mem[StateKey][1]
             /\ mem[StateKey][1][f] = st[f]
             /\ LoadOrCreateState(mem, SpiralName(nextSpiral), clock)[f] = st[f]
       /\ \A i \in DOMAIN st.governance_history :
             \E j \in DOMAIN GovLog :
                /\ IsEvent(GovLog[j])
                /\ GovLog[j].event_id = st.governance_history[i]



====
